---- MODULE Spec2Model ----
(***************************************************************************)
(* State-machine model of the morning_routine Home Assistant integration   *)
(* (custom_components/morning_routine/__init__.py and const.py): the       *)
(* coordinator's routine data, its persisted store, the config entry with  *)
(* its NFC mappings, the pending NFC mapping request with its timer, the   *)
(* registered services, and the effects (saves, events, pushes, external   *)
(* calls) each handler performs, in the order it performs them.            *)
(*                                                                         *)
(* Python dictionaries with optional keys are functions over the keys      *)
(* present; None is NoneStr for strings and NoTime for timestamps.         *)
(* Timestamps are the value of the logical clock `now'.                    *)
(***************************************************************************)
EXTENDS Integers, Sequences, FiniteSets, TLC

VARIABLES
    data,        \* coordinator.data: child -> routine record (NoData before _load_data)
    store,       \* content of the Store file (NoData when nothing was ever saved)
    entry_data,  \* config_entry.data
    entry_options, \* config_entry.options
    waiting,     \* coordinator._waiting_for_tag (NoWaiting when None)
    timers,      \* handles of the armed async_call_later timers
    listeners,   \* the bus and time listeners the coordinator has registered
    services,    \* hass.services registry of this domain: service name -> schema
    now,         \* logical clock read by dt_util.utcnow(), in ticks
    utc_offset,  \* offset of the local time zone from UTC, in ticks
    last,        \* the handler that ran last, with its arguments
    log,         \* the effects of the handler that ran last, in order
    exc,         \* the exception the handler that ran last raised ("none" if none)
    config_entries, \* hass.config_entries: integration domain -> ids of its entries
    hass_data,   \* hass.data[DOMAIN]: ids of the entries whose coordinator is registered
    _state,      \* ExampleCounterSensor._state
    _available,  \* ExampleCounterSensor._available
    updates,     \* the number of update() calls of the example counter so far
    tasks        \* the complete_activity calls in flight: task -> position and arguments

vars == <<data, store, entry_data, entry_options, waiting, timers, listeners,
          services, now, utc_offset, last, log, exc, config_entries, hass_data,
          _state, _available, updates, tasks>>

-----------------------------------------------------------------------------
(* Bounds of the model *)

\* the clock runs from 1 to MaxTime
MaxTime == 2

\* async_call_later handles are drawn from 1..MaxTimers
MaxTimers == 2

\* ticks of the clock in one day
TicksPerDay == 2

\* the offsets of the local time zone from UTC, in ticks
UtcOffsets == {0}

\* weekday (0 = Monday) of the day of tick 0
EpochWeekday == 4

-----------------------------------------------------------------------------
(* Python values *)

NoneStr == "None"
NoTime == 0
NoData == [c \in {} |-> NoneStr]
NoWaiting == [c \in {} |-> NoneStr]
NoMappings == [t \in {} |-> NoneStr]

Range(s) == {s[i] : i \in DOMAIN s}

\* dict.get(key, default)
Get(d, k, default) == IF k \in DOMAIN d THEN d[k] ELSE default

\* d[k] = v on a dict (adds the key or overwrites it)
SetKey(d, k, v) == (k :> v) @@ d

\* del d[k]
DelKey(d, k) == [x \in DOMAIN d \ {k} |-> d[x]]

\* truthiness of an optional string value
Truthy(v) == v # NoneStr /\ v # ""

-----------------------------------------------------------------------------
(* const.py *)

DOMAIN_NAME == "morning_routine"

\* DOMAIN of frigate_counter/const.py
FRIGATE_DOMAIN == "frigate_counter"

CHILDREN == <<"duarte", "leonor">>

Children == Range(CHILDREN)

CHILDREN_CONFIG ==
    [duarte |-> [name |-> "Duarte", gender |-> "m", article |-> "O", pronoun_ready |-> "pronto"],
     leonor |-> [name |-> "Leonor", gender |-> "f", article |-> "A", pronoun_ready |-> "pronta"]]

FIXED_ACTIVITIES ==
    << [id |-> "dressed", name |-> "Vestir", icon |-> "mdi:tshirt-crew",
        camera_required |-> TRUE, nfc_required |-> FALSE],
       [id |-> "breakfast", name |-> "Pequeno-Almoço", icon |-> "mdi:food-variant",
        camera_required |-> FALSE, nfc_required |-> FALSE],
       [id |-> "teeth", name |-> "Lavar Dentes e Cara", icon |-> "mdi:toothbrush",
        camera_required |-> FALSE, nfc_required |-> FALSE],
       [id |-> "schoolbag", name |-> "Mochila", icon |-> "mdi:bag-personal",
        camera_required |-> FALSE, nfc_required |-> TRUE],
       [id |-> "lunchbox", name |-> "Lancheira", icon |-> "mdi:bag-checked",
        camera_required |-> FALSE, nfc_required |-> TRUE] >>

\* A calendar summary or an fnmatch pattern is a sequence of text chunks; the
\* chunk "*" of a pattern is the wildcard.
CALENDAR_ACTIVITY_MAPPING ==
    [duarte |->
        << [pattern |-> <<"D-Música", "*">>,
            activity |-> [id |-> "music", name |-> "Música", icon |-> "mdi:music", nfc_required |-> TRUE]],
           [pattern |-> <<"D-Natação">>,
            activity |-> [id |-> "swimming", name |-> "Natação", icon |-> "mdi:swim", nfc_required |-> TRUE]],
           [pattern |-> <<"D-Jiu Jitsu">>,
            activity |-> [id |-> "jiujitsu", name |-> "Jiu Jitsu", icon |-> "mdi:karate", nfc_required |-> TRUE]] >>,
     leonor |->
        << [pattern |-> <<"L-Música", "*">>,
            activity |-> [id |-> "music", name |-> "Música", icon |-> "mdi:music", nfc_required |-> TRUE]],
           [pattern |-> <<"L-Taekwondo">>,
            activity |-> [id |-> "taekwondo", name |-> "Taekwondo", icon |-> "mdi:karate", nfc_required |-> TRUE]],
           [pattern |-> <<"L-Ed Física">>,
            activity |-> [id |-> "physical_education", name |-> "Ed Física", icon |-> "mdi:run", nfc_required |-> TRUE]] >>]

\* the activity configurations in the order const.py visits them to build
\* ACTIVITY_TYPES: the fixed activities, then each child's calendar activities
AllActivityConfigs ==
    [i \in DOMAIN FIXED_ACTIVITIES |-> [id |-> FIXED_ACTIVITIES[i].id,
                                        name |-> FIXED_ACTIVITIES[i].name,
                                        icon |-> FIXED_ACTIVITIES[i].icon]]
    \o [i \in DOMAIN CALENDAR_ACTIVITY_MAPPING.duarte |->
            [id |-> CALENDAR_ACTIVITY_MAPPING.duarte[i].activity.id,
             name |-> CALENDAR_ACTIVITY_MAPPING.duarte[i].activity.name,
             icon |-> CALENDAR_ACTIVITY_MAPPING.duarte[i].activity.icon]]
    \o [i \in DOMAIN CALENDAR_ACTIVITY_MAPPING.leonor |->
            [id |-> CALENDAR_ACTIVITY_MAPPING.leonor[i].activity.id,
             name |-> CALENDAR_ACTIVITY_MAPPING.leonor[i].activity.name,
             icon |-> CALENDAR_ACTIVITY_MAPPING.leonor[i].activity.icon]]

\* ACTIVITY_TYPES: activity id -> configuration; the first configuration of an
\* id is the one kept
ACTIVITY_TYPES ==
    [id \in {AllActivityConfigs[i].id : i \in DOMAIN AllActivityConfigs} |->
        AllActivityConfigs[CHOOSE i \in DOMAIN AllActivityConfigs :
            /\ AllActivityConfigs[i].id = id
            /\ \A j \in DOMAIN AllActivityConfigs :
                  AllActivityConfigs[j].id = id => i <= j]]

DEFAULT_REWARD_TYPE == "quote"
DEFAULT_OPENAI_ENABLED == FALSE
DEFAULT_ANNOUNCEMENTS_ENABLED == FALSE
DEFAULT_DAILY_PHRASE_ENABLED == FALSE

EVENT_ACTIVITY_COMPLETED == "morning_routine_activity_completed"
EVENT_ROUTINE_COMPLETE == "morning_routine_routine_complete"
EVENT_RESET == "morning_routine_reset"

-----------------------------------------------------------------------------
(* The coordinator's helpers.  A handler is an operator from a machine     *)
(* record M = [data, store, log, exc] to the machine record it leaves:     *)
(* data is coordinator.data, store the Store file, log the effects so far  *)
(* and exc the exception that is propagating ("none" while none is).       *)

Emit(M, e) == [M EXCEPT !.log = Append(@, e)]

\* A marker of the log: function fn was entered / has returned for child.
Enter(M, fn, child) == Emit(M, [kind |-> "enter", fn |-> fn, child |-> child])

Return(M, fn, child) == Emit(M, [kind |-> "return", fn |-> fn, child |-> child])

\* a call to an external service or to the host; outcome is how it ended
Call(M, target, outcome) ==
    Emit(M, [kind |-> "call", target |-> target, outcome |-> outcome])

_get_config_value(key, default) ==
    Get(entry_options, key, Get(entry_data, key, default))

\* a variant whose activities start completed
_get_default_activities_completed ==
    [i \in DOMAIN FIXED_ACTIVITIES |->
        [id |-> FIXED_ACTIVITIES[i].id,
         name |-> FIXED_ACTIVITIES[i].name,
         icon |-> FIXED_ACTIVITIES[i].icon,
         completed |-> TRUE,
         completed_at |-> NoTime,
         camera_required |-> FIXED_ACTIVITIES[i].camera_required,
         nfc_required |-> FIXED_ACTIVITIES[i].nfc_required,
         source |-> "default"]]

_get_default_activities ==
    [i \in DOMAIN FIXED_ACTIVITIES |->
        [id |-> FIXED_ACTIVITIES[i].id,
         name |-> FIXED_ACTIVITIES[i].name,
         icon |-> FIXED_ACTIVITIES[i].icon,
         completed |-> FALSE,
         completed_at |-> NoTime,
         camera_required |-> FIXED_ACTIVITIES[i].camera_required,
         nfc_required |-> FIXED_ACTIVITIES[i].nfc_required,
         source |-> "default"]]

\* a variant that writes nothing
_save_data_unwritten(M) == Emit(M, [kind |-> "save"])

_save_data(M) == Emit([M EXCEPT !.store = M.data], [kind |-> "save"])

\* DataUpdateCoordinator.async_set_updated_data(copy.deepcopy(self.data)):
\* coordinator.data becomes an equal copy and the entities are notified.
async_set_updated_data(M) == Emit(M, [kind |-> "push"])

\* hass.bus.async_fire(event_type, event_data)
async_fire(M, type, payload) ==
    Emit(M, [kind |-> "event", type |-> type, data |-> payload])

_is_child_complete(d, child) ==
    \A i \in DOMAIN d[child].activities : d[child].activities[i].completed

\* a variant that counts the activities still pending
_calculate_progress_pending(d, child) ==
    LET activities == d[child].activities
        pending == Cardinality({i \in DOMAIN activities : ~activities[i].completed})
    IN  IF activities = <<>> THEN 0
        ELSE (pending * 100) \div Len(activities)

\* int((completed / len(activities)) * 100); for lists of up to 11 activities
\* the float product truncates to the integer quotient
_calculate_progress(d, child) ==
    LET activities == d[child].activities
        completed == Cardinality({i \in DOMAIN activities : activities[i].completed})
    IN  IF activities = <<>> THEN 0
        ELSE (completed * 100) \div Len(activities)

-----------------------------------------------------------------------------
(* Outcomes of the external calls, chosen by the environment *)

\* the playlist RSS fetch: it raises, answers with a status other than 200,
\* answers with a feed without videos, or with a feed from which a video is drawn
YoutubeFetch == {"raise", "http_error", "no_videos", "vidA"}

\* openai_conversation.generate_image: raises, answers without url, answers with url
OpenAiImage == {"raise", "no_url", "url"}

\* ImageHandler.download_reward_image: raises or returns the local path
Download == {"raise", "ok"}

\* tts.speak through hass.services.async_call: raises (service missing) or is accepted
Tts == {"raise", "ok"}

\* a variant that takes the body of an answer with an error status for a feed
_get_random_youtube_video_unchecked(fetch) ==
    IF fetch \in {"raise", "no_videos"} THEN NoneStr ELSE fetch

_get_random_youtube_video(fetch) ==
    IF fetch \in {"raise", "http_error", "no_videos"} THEN NoneStr ELSE fetch

-----------------------------------------------------------------------------
(* generate_reward *)

\* the final block of generate_reward: the quote reward
QuoteReward(M, child, reward_type, save_only) ==
    IF reward_type = "quote"
    THEN LET M1 == IF ~save_only
                   THEN async_fire(M, EVENT_ROUTINE_COMPLETE,
                                   [child |-> child, reward_type |-> "quote"])
                   ELSE M
         IN  async_set_updated_data(M1)
    ELSE M

\* the ai_image block of generate_reward, entered with reward_type = "ai_image"
AiImageReward(M, child, save_only, env) ==
    LET configured == _get_config_value("openai_config_entry", NoneStr)
        openai_entry_id ==
            IF ~Truthy(configured)
            THEN (IF env.openai_entries THEN "first_entry" ELSE NoneStr)
            ELSE configured
        Ma == IF ~Truthy(configured)
              THEN Call(M, "config_entries.async_entries",
                        IF env.openai_entries THEN "entries" ELSE "no_entries")
              ELSE M
    IN  IF ~Truthy(openai_entry_id)
        THEN QuoteReward(Ma, child, "quote", save_only)
        ELSE LET M1 == Call(Ma, "openai_conversation.generate_image", env.ai)
             IN  IF env.ai = "raise" THEN QuoteReward(M1, child, "quote", save_only)
                 ELSE IF env.ai = "no_url" THEN QuoteReward(M1, child, "quote", save_only)
                 ELSE LET M2 == Call(M1, "download_reward_image", env.dl)
                      IN  IF env.dl = "raise"
                          THEN QuoteReward(M2, child, "quote", save_only)
                          ELSE LET M3 == _save_data(
                                       [M2 EXCEPT !.data[child].reward_image = "reward.png"])
                               IN  IF ~save_only
                                   THEN async_set_updated_data(
                                            async_fire(M3, EVENT_ROUTINE_COMPLETE,
                                                [child |-> child, reward_type |-> "ai_image",
                                                 reward_image |-> "reward.png"]))
                                   ELSE M3

\* the body of generate_reward for a known child
GenerateRewardBody(M, child, save_only, env) ==
    LET reward_type == _get_config_value("reward_type", DEFAULT_REWARD_TYPE)
        video_id == _get_random_youtube_video(env.yt)
    IN  IF reward_type = "youtube_video" /\ Truthy(video_id)
        THEN LET M1 == _save_data([Call(M, "youtube", env.yt) EXCEPT
                                      !.data[child].reward_video_id = video_id])
             IN  IF ~save_only
                 THEN async_set_updated_data(
                          async_fire(M1, EVENT_ROUTINE_COMPLETE,
                              [child |-> child, reward_type |-> "youtube_video",
                               reward_video_id |-> video_id]))
                 ELSE M1
        ELSE LET M1 == IF reward_type = "youtube_video" THEN Call(M, "youtube", env.yt) ELSE M
                 rt1 == IF reward_type = "youtube_video" THEN "quote" ELSE reward_type
                 rt2 == IF rt1 = "ai_image" /\ ~_get_config_value("openai_enabled", FALSE)
                        THEN "quote" ELSE rt1
             IN  IF rt2 = "ai_image"
                 THEN AiImageReward(M1, child, save_only, env)
                 ELSE QuoteReward(M1, child, rt2, save_only)

generate_reward(M, child, save_only, env) ==
    IF child \notin Children THEN M
    ELSE Return(GenerateRewardBody(Enter(M, "generate_reward", child),
                                   child, save_only, env),
                "generate_reward", child)

-----------------------------------------------------------------------------
(* _announce_completion and complete_activity *)

_announce_completion(M, child, force_test, env) ==
    LET M0 == Enter(M, "_announce_completion", child)
        daily_phrase == M.data[child].daily_phrase
    IN  IF ~force_test /\ ~_get_config_value("announcements_enabled", DEFAULT_ANNOUNCEMENTS_ENABLED)
        THEN M0
        ELSE IF ~force_test /\ ~_get_config_value("daily_phrase_enabled", DEFAULT_DAILY_PHRASE_ENABLED)
        THEN M0
        ELSE IF ~Truthy(_get_config_value("media_player_entity", NoneStr))
        THEN M0
        ELSE IF ~Truthy(daily_phrase) /\ ~force_test
        THEN M0
        ELSE LET M1 == Call(M0, "tts.speak", env.tts)
             IN  IF env.tts = "raise" THEN [M1 EXCEPT !.exc = "ServiceNotFound"] ELSE M1

\* index of the first activity of acts with the given id, 0 when there is none
FindActivity(acts, activity_id) ==
    IF \E i \in DOMAIN acts : acts[i].id = activity_id
    THEN CHOOSE i \in DOMAIN acts :
            /\ acts[i].id = activity_id
            /\ \A j \in DOMAIN acts : acts[j].id = activity_id => i <= j
    ELSE 0

\* a variant that keeps the device of an activity marked incomplete
MarkActivityKeepingDevice(activity, device_id, completed) ==
    LET a1 == SetKey(SetKey(activity, "completed", completed), "last_modified", now)
    IN  IF completed
        THEN LET a2 == SetKey(a1, "completed_at", now)
             IN  IF Truthy(device_id) THEN SetKey(a2, "device_id", device_id) ELSE a2
        ELSE SetKey(a1, "completed_at", NoTime)

\* a variant that never records the device
MarkActivityWithoutDevice(activity, device_id, completed) ==
    LET a1 == SetKey(SetKey(activity, "completed", completed), "last_modified", now)
    IN  IF completed
        THEN SetKey(a1, "completed_at", now)
        ELSE DelKey(SetKey(a1, "completed_at", NoTime), "device_id")

\* the loop body of complete_activity: the update of the activity found
MarkActivity(activity, device_id, completed) ==
    LET a1 == SetKey(SetKey(activity, "completed", completed), "last_modified", now)
    IN  IF completed
        THEN LET a2 == SetKey(a1, "completed_at", now)
             IN  IF Truthy(device_id) THEN SetKey(a2, "device_id", device_id) ELSE a2
        ELSE DelKey(SetKey(a1, "completed_at", NoTime), "device_id")

\* a variant that marks every activity of the child
complete_activity_marked_every(M, child, idx, device_id, completed) ==
    [M EXCEPT !.data[child].activities =
                    [i \in DOMAIN @ |-> MarkActivity(@[i], device_id, completed)],
              !.data[child].last_activity_time = now]

\* complete_activity from the activity found at position idx to the await of
\* _save_data: the activity is marked and last_activity_time is set
complete_activity_marked(M, child, idx, device_id, completed) ==
    [M EXCEPT !.data[child].activities[idx] = MarkActivity(@, device_id, completed),
              !.data[child].last_activity_time = now]

\* complete_activity from the completion of the storage write to its end
complete_activity_saved(M, child, activity_id, completed, env) ==
    LET M2 == _save_data(M)
        M3 == async_fire(M2, EVENT_ACTIVITY_COMPLETED,
                  [child |-> child, activity |-> activity_id,
                   completed |-> completed,
                   progress |-> _calculate_progress(M2.data, child),
                   timestamp |-> now])
        M4 == IF completed /\ _is_child_complete(M3.data, child)
              THEN LET R == generate_reward(M3, child, FALSE, env)
                   IN  IF R.exc # "none" THEN R
                       ELSE _announce_completion(R, child, FALSE, env)
              ELSE M3
    IN  IF M4.exc # "none" THEN M4 ELSE async_set_updated_data(M4)

\* a variant of complete_activity that saves and pushes when the activity is
\* not in the list
complete_activity_saving_unfound(M, child, activity_id, device_id, completed, env) ==
    IF child \notin Children THEN M
    ELSE LET idx == FindActivity(M.data[child].activities, activity_id)
         IN  IF idx = 0
             THEN async_set_updated_data(
                      _save_data([M EXCEPT !.data[child].last_activity_time = now]))
             ELSE complete_activity_saved(
                      complete_activity_marked(M, child, idx, device_id, completed),
                      child, activity_id, completed, env)

complete_activity(M, child, activity_id, device_id, completed, env) ==
    IF child \notin Children THEN M
    ELSE LET idx == FindActivity(M.data[child].activities, activity_id)
         IN  IF idx = 0 THEN M
             ELSE complete_activity_saved(
                      complete_activity_marked(M, child, idx, device_id, completed),
                      child, activity_id, completed, env)

-----------------------------------------------------------------------------
(* save_photo and save_audio *)

\* ImageHandler.save_photo / save_audio: raises, or writes the file and
\* returns its path
SaveFile == {"raise", "ok"}

save_photo(M, child, outcome) ==
    IF child \notin Children THEN M
    ELSE LET M1 == Call(M, "ImageHandler.save_photo", outcome)
         IN  IF outcome = "raise" THEN [M1 EXCEPT !.exc = "Exception"]
             ELSE async_set_updated_data(
                      _save_data([M1 EXCEPT !.data[child].photo_path = "photo.jpg"]))

save_audio(M, child, outcome) ==
    IF child \notin Children THEN M
    ELSE LET M1 == Call(M, "ImageHandler.save_audio", outcome)
         IN  IF outcome = "raise" THEN [M1 EXCEPT !.exc = "Exception"]
             ELSE LET M2 == _save_data(
                          [M1 EXCEPT !.data[child].audio_recording = "audio.webm"])
                      M3 == Emit(M2, [kind |-> "task", fn |-> "_transcribe_audio"])
                  IN  async_set_updated_data(M3)

-----------------------------------------------------------------------------
(* Calendar sync *)

\* fnmatch.fnmatch(summary, pattern) on chunk sequences: "*" matches any run
\* of chunks, every other chunk matches itself
RECURSIVE fnmatch(_, _)
fnmatch(summary, pattern) ==
    IF pattern = <<>> THEN summary = <<>>
    ELSE IF Head(pattern) = "*"
    THEN fnmatch(summary, Tail(pattern))
         \/ (summary # <<>> /\ fnmatch(Tail(summary), pattern))
    ELSE /\ summary # <<>>
         /\ Head(summary) = Head(pattern)
         /\ fnmatch(Tail(summary), Tail(pattern))

\* index of the first mapping whose pattern matches the summary, 0 if none does
FirstMatch(child_mappings, summary) ==
    IF \E i \in DOMAIN child_mappings : fnmatch(summary, child_mappings[i].pattern)
    THEN CHOOSE i \in DOMAIN child_mappings :
            /\ fnmatch(summary, child_mappings[i].pattern)
            /\ \A j \in DOMAIN child_mappings :
                  fnmatch(summary, child_mappings[j].pattern) => i <= j
    ELSE 0

\* a variant of the loop that adds an activity for every matching event
RECURSIVE ParseEventsEvery(_, _, _)
ParseEventsEvery(child_mappings, events, matched) ==
    IF events = <<>> THEN matched
    ELSE LET summary == Get(Head(events), "summary", <<>>)
             k == FirstMatch(child_mappings, summary)
         IN  IF k = 0 THEN ParseEventsEvery(child_mappings, Tail(events), matched)
             ELSE LET activity_config == child_mappings[k].activity
                  IN  ParseEventsEvery(child_mappings, Tail(events),
                          Append(matched,
                              [id |-> activity_config.id,
                               name |-> activity_config.name,
                               icon |-> activity_config.icon,
                               completed |-> FALSE,
                               completed_at |-> NoTime,
                               camera_required |-> FALSE,
                               nfc_required |-> Get(activity_config, "nfc_required", TRUE),
                               source |-> "calendar",
                               event_summary |-> summary,
                               last_modified |-> now]))

\* the loop of _parse_calendar_events over the events; matched is the list of
\* the values of matched_activities, in insertion order
RECURSIVE ParseEvents(_, _, _)
ParseEvents(child_mappings, events, matched) ==
    IF events = <<>> THEN matched
    ELSE LET summary == Get(Head(events), "summary", <<>>)
             k == FirstMatch(child_mappings, summary)
         IN  IF k = 0 THEN ParseEvents(child_mappings, Tail(events), matched)
             ELSE LET activity_config == child_mappings[k].activity
                  IN  IF \E i \in DOMAIN matched : matched[i].id = activity_config.id
                      THEN ParseEvents(child_mappings, Tail(events), matched)
                      ELSE ParseEvents(child_mappings, Tail(events),
                               Append(matched,
                                   [id |-> activity_config.id,
                                    name |-> activity_config.name,
                                    icon |-> activity_config.icon,
                                    completed |-> FALSE,
                                    completed_at |-> NoTime,
                                    camera_required |-> FALSE,
                                    nfc_required |-> Get(activity_config, "nfc_required", TRUE),
                                    source |-> "calendar",
                                    event_summary |-> summary,
                                    last_modified |-> now]))

_parse_calendar_events(child, events) ==
    IF child \notin DOMAIN CALENDAR_ACTIVITY_MAPPING THEN <<>>
    ELSE ParseEvents(CALENDAR_ACTIVITY_MAPPING[child], events, <<>>)

\* a variant of the inner loop that appends every parsed activity
AddCalendarActivitiesUnchecked(activities, child_events) ==
    activities \o child_events

\* the inner loop of _sync_calendar: append the activities whose id is new
RECURSIVE AddCalendarActivities(_, _)
AddCalendarActivities(activities, child_events) ==
    IF child_events = <<>> THEN activities
    ELSE AddCalendarActivities(
             IF \E i \in DOMAIN activities : activities[i].id = Head(child_events).id
             THEN activities
             ELSE Append(activities, Head(child_events)),
             Tail(child_events))

\* hass.states.async_entity_ids("calendar")
CalendarEntityIds == {"calendar.family"}

\* a variant of _sync_calendar that asks the calendar again after a failure
_sync_calendar_retrying(M, env) ==
    LET M0 == Enter(M, "_sync_calendar", NoneStr)
        calendar_entity == _get_config_value("calendar_entity", NoneStr)
    IN  IF ~Truthy(calendar_entity) THEN M0
        ELSE IF calendar_entity \notin CalendarEntityIds THEN M0
        ELSE LET M1 == Call(M0, "calendar.get_events",
                              IF env.cal.raises THEN "raise" ELSE "ok")
             IN  IF env.cal.raises THEN Call(M1, "calendar.get_events", "raise")
                 ELSE _save_data([M1 EXCEPT !.data =
                         [c \in DOMAIN M1.data |->
                             IF c \in Children
                             THEN [M1.data[c] EXCEPT
                                     !.activities = AddCalendarActivities(@,
                                         _parse_calendar_events(c, env.cal.events)),
                                     !.last_calendar_sync = now]
                             ELSE M1.data[c]]])

_sync_calendar(M, env) ==
    LET M0 == Enter(M, "_sync_calendar", NoneStr)
        calendar_entity == _get_config_value("calendar_entity", NoneStr)
    IN  IF ~Truthy(calendar_entity) THEN M0
        ELSE IF calendar_entity \notin CalendarEntityIds THEN M0
        ELSE LET M1 == Call(M0, "calendar.get_events",
                              IF env.cal.raises THEN "raise" ELSE "ok")
             IN  IF env.cal.raises THEN M1
                 ELSE _save_data([M1 EXCEPT !.data =
                         [c \in DOMAIN M1.data |->
                             IF c \in Children
                             THEN [M1.data[c] EXCEPT
                                     !.activities = AddCalendarActivities(@,
                                         _parse_calendar_events(c, env.cal.events)),
                                     !.last_calendar_sync = now]
                             ELSE M1.data[c]]])

-----------------------------------------------------------------------------
(* Daily content and reset *)

\* conversation.process for one child: raises, answers without speech, or
\* answers with a phrase
Phrase == {"raise", "empty", "phrase"}

\* the loop of _generate_daily_phrases over CHILDREN[i..]
RECURSIVE DailyPhrasesFrom(_, _, _)
DailyPhrasesFrom(M, i, env) ==
    IF i > Len(CHILDREN) THEN M
    ELSE LET child == CHILDREN[i]
             M1 == Call(M, "conversation.process", env.phrase[child])
         IN  DailyPhrasesFrom(
                 IF env.phrase[child] = "phrase"
                 THEN [M1 EXCEPT !.data[child].daily_phrase = "phrase of the day"]
                 ELSE M1,
                 i + 1, env)

_generate_daily_phrases(M, env) ==
    IF ~_get_config_value("daily_phrase_enabled", DEFAULT_DAILY_PHRASE_ENABLED) THEN M
    ELSE IF ~Truthy(_get_config_value("openai_config_entry", NoneStr)) THEN M
    ELSE DailyPhrasesFrom(M, 1, env)

\* the ai_image loop of _generate_daily_content over CHILDREN[i..]
RECURSIVE PreGenerateRewardsFrom(_, _, _)
PreGenerateRewardsFrom(M, i, env) ==
    IF i > Len(CHILDREN) THEN M
    ELSE PreGenerateRewardsFrom(generate_reward(M, CHILDREN[i], TRUE, env), i + 1, env)

\* the youtube_video loop of _generate_daily_content over CHILDREN[i..]
RECURSIVE PreFetchVideosFrom(_, _, _)
PreFetchVideosFrom(M, i, env) ==
    IF i > Len(CHILDREN) THEN M
    ELSE LET child == CHILDREN[i]
             video_id == _get_random_youtube_video(env.yt)
             M1 == Call(M, "youtube", env.yt)
         IN  PreFetchVideosFrom(
                 IF Truthy(video_id)
                 THEN [M1 EXCEPT !.data[child].reward_video_id = video_id]
                 ELSE M1,
                 i + 1, env)

_generate_daily_content(M, env) ==
    LET M0 == _generate_daily_phrases(Enter(M, "_generate_daily_content", NoneStr), env)
        reward_type == _get_config_value("reward_type", DEFAULT_REWARD_TYPE)
        M1 == IF reward_type = "ai_image"
              THEN (IF _get_config_value("openai_enabled", DEFAULT_OPENAI_ENABLED)
                    THEN PreGenerateRewardsFrom(M0, 1, env)
                    ELSE M0)
              ELSE IF reward_type = "youtube_video"
              THEN PreFetchVideosFrom(M0, 1, env)
              ELSE M0
    IN  _save_data(M1)

\* a variant that selects every child whatever the argument
ChildrenToResetEvery(child) == CHILDREN

\* a variant that selects the children other than the named one
ChildrenToResetOthers(child) ==
    IF Truthy(child) /\ child \in Children
    THEN SelectSeq(CHILDREN, LAMBDA c : c # child)
    ELSE CHILDREN

\* a variant without the membership test
ChildrenToResetUnchecked(child) ==
    IF Truthy(child) THEN <<child>> ELSE CHILDREN

\* [child] if child and child in CHILDREN else CHILDREN
ChildrenToReset(child) ==
    IF Truthy(child) /\ child \in Children THEN <<child>> ELSE CHILDREN

reset_routine(M, child, env) ==
    LET children_to_reset == ChildrenToReset(child)
        Mr == Enter(M, "reset_routine", child)
        M1 == [Mr EXCEPT !.data =
                 [c \in DOMAIN M.data |->
                     IF c \in Range(children_to_reset)
                     THEN [M.data[c] EXCEPT
                             !.activities = _get_default_activities,
                             !.photo_path = NoneStr,
                             !.audio_recording = NoneStr,
                             !.reward_image = NoneStr,
                             !.reward_video_id = NoneStr,
                             !.last_reset = now]
                     ELSE M.data[c]]]
        M2 == _save_data(M1)
        M3 == _sync_calendar(M2, env)
        M4 == _generate_daily_content(M3, env)
        M5 == async_fire(M4, EVENT_RESET,
                  [children |-> children_to_reset, reset_time |-> now])
    IN  async_set_updated_data(M5)

-----------------------------------------------------------------------------
(* Time and the automatic reset *)

\* datetime.date() of a UTC timestamp
UtcDate(t) == t \div TicksPerDay

\* dt_util.now().date()
LocalDate(t) == (t + utc_offset) \div TicksPerDay

\* date.weekday(): 0 is Monday, 5 Saturday, 6 Sunday
Weekday(day) == (day + EpochWeekday) % 7

_should_reset(d) ==
    IF /\ _get_config_value("business_days_only", TRUE)
       /\ Weekday(LocalDate(now)) >= 5
    THEN FALSE
    ELSE ~ \E c \in Children :
              /\ d[c].last_reset # NoTime
              /\ UtcDate(d[c].last_reset) >= LocalDate(now)

_async_update_data(M, env) ==
    IF _should_reset(M.data) THEN reset_routine(M, NoneStr, env) ELSE M

\* the tick of the local day at which the configured reset time is reached: a
\* local day starts with the ticks before the reset time
ResetTick == 1

\* the tick of the local day the clock is in
LocalTimeOfDay(t) == (t + utc_offset) % TicksPerDay

_scheduled_reset(M, env) == reset_routine(M, NoneStr, env)

-----------------------------------------------------------------------------
(* Setup *)

\* a variant of the migration that rebuilds every known activity from the
\* current configuration
_migrate_activity_names_rebuilt(d) ==
    [c \in DOMAIN d |->
        IF c \in Children /\ "activities" \in DOMAIN d[c]
        THEN [d[c] EXCEPT !.activities =
                [i \in DOMAIN @ |->
                    IF Get(@[i], "id", NoneStr) \in DOMAIN ACTIVITY_TYPES
                    THEN [id |-> @[i].id,
                          name |-> ACTIVITY_TYPES[@[i].id].name,
                          icon |-> ACTIVITY_TYPES[@[i].id].icon,
                          completed |-> FALSE,
                          completed_at |-> NoTime]
                    ELSE @[i]]]
        ELSE d[c]]

\* _migrate_activity_names: a child missing from the data is skipped, and one
\* without the key "activities" has no activity to visit
_migrate_activity_names(d) ==
    [c \in DOMAIN d |->
        IF c \in Children /\ "activities" \in DOMAIN d[c]
        THEN [d[c] EXCEPT !.activities =
                [i \in DOMAIN @ |->
                    IF Get(@[i], "id", NoneStr) \in DOMAIN ACTIVITY_TYPES
                    THEN SetKey(SetKey(@[i], "name", ACTIVITY_TYPES[@[i].id].name),
                                "icon", ACTIVITY_TYPES[@[i].id].icon)
                    ELSE @[i]]]
        ELSE d[c]]

\* the record _load_data gives a child when the store is empty
DefaultChildData ==
    [activities |-> _get_default_activities,
     last_activity_time |-> NoTime,
     photo_path |-> NoneStr,
     audio_recording |-> NoneStr,
     reward_image |-> NoneStr,
     reward_video_id |-> NoneStr,
     daily_phrase |-> NoneStr,
     last_reset |-> NoTime,
     last_calendar_sync |-> NoTime]

_load_data(M) ==
    IF M.store # NoData
    THEN [M EXCEPT !.data = _migrate_activity_names(M.store)]
    ELSE _save_data([M EXCEPT !.data = [c \in Children |-> DefaultChildData]])

\* the listeners _setup_listeners and _setup_announcement_listeners register
SetupListeners ==
    {"tag_scanned", "reset_time"}
    \cup (IF _get_config_value("announcements_enabled", DEFAULT_ANNOUNCEMENTS_ENABLED)
          THEN {"announce_30_minutes", "announce_10_minutes", "announce_school_time"}
          ELSE {})

async_config_entry_first_refresh(M, env) ==
    _async_update_data(_load_data(M), env)

\* a variant in which save_photo is registered without schema
RegisteredServicesUnvalidatedPhoto ==
    [complete_activity |-> "SERVICE_COMPLETE_ACTIVITY_SCHEMA",
     save_photo |-> NoneStr,
     save_audio |-> "SERVICE_SAVE_AUDIO_SCHEMA",
     reset_routine |-> "SERVICE_RESET_ROUTINE_SCHEMA",
     regenerate_reward |-> "SERVICE_REGENERATE_REWARD_SCHEMA",
     add_nfc_mapping |-> "SERVICE_ADD_NFC_MAPPING_SCHEMA",
     remove_nfc_mapping |-> "SERVICE_REMOVE_NFC_MAPPING_SCHEMA",
     list_nfc_mappings |-> NoneStr,
     announce_time_remaining |-> NoneStr,
     announce_time_with_weather |-> NoneStr,
     announce_time_with_activities |-> NoneStr,
     test_announce_completion |-> "SERVICE_TEST_ANNOUNCE_COMPLETION_SCHEMA",
     get_history |-> "SERVICE_GET_HISTORY_SCHEMA"]

\* the hass.services.async_register calls of async_setup_entry: service name ->
\* the schema= argument (NoneStr when the call passes none)
RegisteredServices ==
    [complete_activity |-> "SERVICE_COMPLETE_ACTIVITY_SCHEMA",
     save_photo |-> "SERVICE_SAVE_PHOTO_SCHEMA",
     save_audio |-> "SERVICE_SAVE_AUDIO_SCHEMA",
     reset_routine |-> "SERVICE_RESET_ROUTINE_SCHEMA",
     regenerate_reward |-> "SERVICE_REGENERATE_REWARD_SCHEMA",
     add_nfc_mapping |-> "SERVICE_ADD_NFC_MAPPING_SCHEMA",
     remove_nfc_mapping |-> "SERVICE_REMOVE_NFC_MAPPING_SCHEMA",
     list_nfc_mappings |-> NoneStr,
     announce_time_remaining |-> NoneStr,
     announce_time_with_weather |-> NoneStr,
     announce_time_with_activities |-> NoneStr,
     test_announce_completion |-> "SERVICE_TEST_ANNOUNCE_COMPLETION_SCHEMA",
     get_history |-> "SERVICE_GET_HISTORY_SCHEMA"]

NoServices == [n \in {} |-> NoneStr]

-----------------------------------------------------------------------------
(* sensor.py: MorningRoutineChildSensor *)

\* a variant that rounds the percentage up
native_value_rounded_up(d, child) ==
    IF d = NoData \/ child \notin DOMAIN d THEN 0
    ELSE LET activities == d[child].activities
             completed == Cardinality({i \in DOMAIN activities : activities[i].completed})
         IN  IF activities = <<>> THEN 0
             ELSE (completed * 100 + Len(activities) - 1) \div Len(activities)

\* native_value of the sensor of child over coordinator.data = d;
\* int((completed / len(activities)) * 100) is the integer quotient for every
\* list shorter than FloatExactBelow
native_value(d, child) ==
    IF d = NoData \/ child \notin DOMAIN d THEN 0
    ELSE LET activities == d[child].activities
             completed == Cardinality({i \in DOMAIN activities : activities[i].completed})
         IN  IF activities = <<>> THEN 0
             ELSE (completed * 100) \div Len(activities)

\* extra_state_attributes of the sensor of child: {} when the child is missing
extra_state_attributes(d, child) ==
    IF d = NoData \/ child \notin DOMAIN d THEN NoData
    ELSE [child |-> child,
          activities |-> d[child].activities,
          last_activity_time |-> Get(d[child], "last_activity_time", NoTime),
          photo_path |-> Get(d[child], "photo_path", NoneStr),
          audio_recording |-> Get(d[child], "audio_recording", NoneStr),
          reward_image |-> Get(d[child], "reward_image", NoneStr),
          all_complete |-> (native_value(d, child) = 100),
          next_reset |-> Get(d[child], "last_reset", NoTime),
          progress |-> native_value(d, child)]

-----------------------------------------------------------------------------
(* Inputs and environments the actions draw from *)

\* child arguments of the service calls: the known children and an unknown one
ChildInputs == Children \cup {"maria"}

\* <<child, activity, completed>> arguments of complete_activity: a fixed and a
\* calendar activity of duarte, a fixed activity of leonor, an unknown activity
\* and an unknown child
CompleteInputs ==
    ({"duarte"} \X {"lunchbox", "music"} \X BOOLEAN)
    \cup {<<"leonor", "lunchbox", TRUE>>,
          <<"duarte", "juggling", TRUE>>,
          <<"maria", "lunchbox", TRUE>>}

TagInputs == {"tag1", "tag2"}

DeviceInputs == {NoneStr, "phone1"}

\* calendar summaries, as chunk sequences
Summaries ==
    [dmusic |-> <<"D-Música", " Trompete">>,
     lmusic |-> <<"L-Música">>,
     dswim |-> <<"D-Natação">>,
     other |-> <<"Dentista">>]

\* answers of calendar.get_events: it raises, or returns today's events
CalendarResponses ==
    {[raises |-> TRUE, events |-> <<>>],
     [raises |-> FALSE, events |-> <<>>],
     [raises |-> FALSE,
      events |-> <<[summary |-> Summaries.dmusic], [summary |-> Summaries.other],
                   [summary |-> Summaries.dmusic]>>]}

\* the environment in which every external call succeeds
EnvOk ==
    [yt |-> "vidA", ai |-> "url", dl |-> "ok", openai_entries |-> TRUE, tts |-> "ok",
     cal |-> [raises |-> FALSE, events |-> <<>>],
     phrase |-> [c \in Children |-> "phrase"]]

\* An outcome is drawn only for the calls the configuration lets the handlers
\* make; the outcome of a call that is never made is left as in EnvOk.
ConfiguredRewardType == _get_config_value("reward_type", DEFAULT_REWARD_TYPE)

YoutubeOutcomes ==
    IF ConfiguredRewardType = "youtube_video" THEN YoutubeFetch ELSE {EnvOk.yt}

UsesOpenAiImage ==
    ConfiguredRewardType = "ai_image" /\ _get_config_value("openai_enabled", FALSE)

\* <<generate_image outcome, download outcome, an OpenAI entry exists>>
OpenAiOutcomes ==
    IF UsesOpenAiImage
    THEN OpenAiImage \X Download \X BOOLEAN
    ELSE {<<EnvOk.ai, EnvOk.dl, EnvOk.openai_entries>>}

TtsOutcomes ==
    IF /\ _get_config_value("announcements_enabled", DEFAULT_ANNOUNCEMENTS_ENABLED)
       /\ _get_config_value("daily_phrase_enabled", DEFAULT_DAILY_PHRASE_ENABLED)
       /\ Truthy(_get_config_value("media_player_entity", NoneStr))
    THEN Tts ELSE {EnvOk.tts}

CalendarOutcomes ==
    IF _get_config_value("calendar_entity", NoneStr) \in CalendarEntityIds
    THEN CalendarResponses ELSE {EnvOk.cal}

PhraseOutcomes ==
    IF /\ _get_config_value("daily_phrase_enabled", DEFAULT_DAILY_PHRASE_ENABLED)
       /\ Truthy(_get_config_value("openai_config_entry", NoneStr))
    THEN [Children -> Phrase] ELSE {EnvOk.phrase}

\* the answers to the two phrase requests of a reset that the specifications
\* draw from: both answered, both failing, duarte's empty
PhraseAnswers ==
    {p \in PhraseOutcomes :
        \/ \A c \in Children : p[c] = "phrase"
        \/ \A c \in Children : p[c] = "raise"
        \/ p["duarte"] = "empty" /\ p["leonor"] = "phrase"}

\* the environments of a reward generation: every outcome of every call made
RewardEnvs ==
    {[EnvOk EXCEPT !.yt = y, !.ai = o[1], !.dl = o[2], !.openai_entries = o[3]] :
        y \in YoutubeOutcomes, o \in OpenAiOutcomes}

\* the reward environments in which at most one call fails by raising
OneFaultRewardEnvs ==
    {e \in RewardEnvs :
        /\ e.yt \in {"raise", EnvOk.yt}
        /\ e.ai \in {"raise", EnvOk.ai}
        /\ e.dl \in {"raise", EnvOk.dl}
        /\ e.openai_entries
        /\ Cardinality({k \in {"yt", "ai", "dl"} : e[k] = "raise"}) <= 1}

\* the environments of complete_activity: a reward environment and the TTS outcome
CompleteEnvs == {[e EXCEPT !.tts = t] : e \in OneFaultRewardEnvs, t \in TtsOutcomes}

\* the environments of reset_routine: a reward environment, the calendar answer
\* and the answers to the children's phrase requests
ResetEnvs ==
    {[e EXCEPT !.cal = c, !.phrase = p] :
        e \in OneFaultRewardEnvs, c \in CalendarOutcomes, p \in PhraseAnswers}

-----------------------------------------------------------------------------
(* Actions: one per handler *)

\* the machine record a handler starts from
M0 == [data |-> data, store |-> store, log |-> <<>>, exc |-> "none"]

\* the state a handler leaves
Commit(M) ==
    /\ data' = M.data
    /\ store' = M.store
    /\ log' = M.log
    /\ exc' = M.exc

\* ExampleCounterSensor.__init__
ExampleCounterSensorInit ==
    /\ _state = 0
    /\ _available = TRUE
    /\ updates = 0

\* the number of update() calls the model follows
MaxUpdates == 120

\* a variant of ExampleCounterSensor.update that skips every second increment
update_every_second(s) ==
    [_state |-> IF s % 2 = 1 THEN s ELSE s + 1, _available |-> TRUE]

\* ExampleCounterSensor.update: the new _state and _available
update(s) ==
    [_state |-> s + 1, _available |-> TRUE]

\* one update() call of the example counter sensor
ExampleCounterUpdate ==
    /\ updates < MaxUpdates
    /\ _state' = update(_state)._state
    /\ _available' = update(_state)._available
    /\ updates' = updates + 1
    /\ UNCHANGED <<data, store, entry_data, entry_options, waiting, timers,
                   listeners, services, now, utc_offset, last, log, exc,
                   config_entries, hass_data, tasks>>

IsSetUp == services # NoServices

\* entry.entry_id of the first config entry of an integration
ENTRY_ID == 1

\* async_setup_entry: first refresh (load, listeners, update), then the services
AsyncSetupEntry(env) ==
    /\ ~IsSetUp
    /\ ENTRY_ID \in config_entries[DOMAIN_NAME]
    /\ Commit(async_config_entry_first_refresh(M0, env))
    /\ listeners' = SetupListeners
    /\ hass_data' = hass_data \cup {ENTRY_ID}
    /\ services' = RegisteredServices
    /\ last' = [op |-> "async_setup_entry"]
    /\ UNCHANGED <<entry_data, entry_options, waiting, timers, now, utc_offset,
                 config_entries,
                 _state, _available, updates, tasks>>

\* handle_complete_activity
CompleteActivityService(child, activity, completed, env) ==
    /\ "complete_activity" \in DOMAIN services
    /\ Commit(complete_activity(M0, child, activity, NoneStr, completed, env))
    /\ last' = [op |-> "complete_activity", child |-> child, activity |-> activity,
                completed |-> completed]
    /\ UNCHANGED <<entry_data, entry_options, waiting, timers, listeners, services,
                   now, utc_offset,
                 config_entries, hass_data,
                 _state, _available, updates, tasks>>

\* handle_reset_routine; child is NoneStr when the call gives none
ResetRoutineService(child, env) ==
    /\ "reset_routine" \in DOMAIN services
    /\ Commit(reset_routine(M0, child, env))
    /\ last' = [op |-> "reset_routine", child |-> child]
    /\ UNCHANGED <<entry_data, entry_options, waiting, timers, listeners, services,
                   now, utc_offset,
                 config_entries, hass_data,
                 _state, _available, updates, tasks>>

\* handle_regenerate_reward
RegenerateRewardService(child, env) ==
    /\ "regenerate_reward" \in DOMAIN services
    /\ Commit(generate_reward(M0, child, FALSE, env))
    /\ last' = [op |-> "regenerate_reward", child |-> child]
    /\ UNCHANGED <<entry_data, entry_options, waiting, timers, listeners, services,
                   now, utc_offset,
                 config_entries, hass_data,
                 _state, _available, updates, tasks>>

\* handle_save_photo
SavePhotoService(child, outcome) ==
    /\ "save_photo" \in DOMAIN services
    /\ Commit(save_photo(M0, child, outcome))
    /\ last' = [op |-> "save_photo", child |-> child]
    /\ UNCHANGED <<entry_data, entry_options, waiting, timers, listeners, services,
                   now, utc_offset,
                 config_entries, hass_data,
                 _state, _available, updates, tasks>>

\* handle_save_audio
SaveAudioService(child, outcome) ==
    /\ "save_audio" \in DOMAIN services
    /\ Commit(save_audio(M0, child, outcome))
    /\ last' = [op |-> "save_audio", child |-> child]
    /\ UNCHANGED <<entry_data, entry_options, waiting, timers, listeners, services,
                   now, utc_offset,
                 config_entries, hass_data,
                 _state, _available, updates, tasks>>

\* time passes
Tick ==
    /\ now < MaxTime
    /\ now' = now + 1
    /\ last' = [op |-> "tick"]
    /\ log' = <<>>
    /\ exc' = "none"
    /\ UNCHANGED <<data, store, entry_data, entry_options, waiting, timers, listeners,
                   services, utc_offset,
                 config_entries, hass_data,
                 _state, _available, updates, tasks>>

\* the refresh the coordinator runs every update_interval: _async_update_data
PeriodicRefresh(env) ==
    /\ ENTRY_ID \in hass_data
    /\ Commit(_async_update_data(M0, env))
    /\ last' = [op |-> "refresh"]
    /\ UNCHANGED <<entry_data, entry_options, waiting, timers, listeners, services,
                   now, utc_offset, config_entries, hass_data,
                   _state, _available, updates, tasks>>

\* the async_track_time_change listener of _setup_listeners fires, at the
\* configured reset time of the local day: _scheduled_reset
ScheduledReset(env) ==
    /\ "reset_time" \in listeners
    /\ LocalTimeOfDay(now) = ResetTick
    /\ Commit(_scheduled_reset(M0, env))
    /\ last' = [op |-> "scheduled_reset"]
    /\ UNCHANGED <<entry_data, entry_options, waiting, timers, listeners, services,
                   now, utc_offset, config_entries, hass_data,
                   _state, _available, updates, tasks>>

-----------------------------------------------------------------------------
(* NFC tag mapping *)

\* persistent_notification.async_create(..., notification_id=DOMAIN_<id>)
Notify(id) == [kind |-> "notify", id |-> id]

\* config_entry.data.get(CONF_NFC_MAPPINGS, {})
NfcMappings(ed) == Get(ed, "nfc_mappings", NoMappings)

\* a variant that writes a table holding the new mapping only
StoreMappingOnly(ed, tag_id, child, activity) ==
    SetKey(ed, "nfc_mappings",
           SetKey(NoMappings, tag_id, [child |-> child, activity |-> activity]))

\* _handle_nfc_tag, mapping branch: the config entry data that is written
StoreMapping(ed, tag_id, child, activity) ==
    SetKey(ed, "nfc_mappings",
           SetKey(NfcMappings(ed), tag_id, [child |-> child, activity |-> activity]))

\* a variant that writes an empty table
RemoveMappingAll(ed, tag_id) ==
    SetKey(ed, "nfc_mappings", NoMappings)

\* remove_nfc_mapping: the config entry data that is written
RemoveMapping(ed, tag_id) ==
    SetKey(ed, "nfc_mappings", DelKey(NfcMappings(ed), tag_id))

\* calling the timeout_handle of the pending request cancels its timer
CancelTimeout(w, ts) ==
    IF w # NoWaiting /\ "timeout_handle" \in DOMAIN w
    THEN ts \ {w.timeout_handle}
    ELSE ts

\* the handle async_call_later returns: one that no armed timer has
NewHandle(ts) ==
    CHOOSE h \in (1..MaxTimers) \ ts : \A g \in (1..MaxTimers) \ ts : h <= g

\* a variant that validates the child only
ValidMappingRequestChildOnly(child, activity) ==
    child \in Children

\* the validation at the head of add_nfc_mapping
ValidMappingRequest(child, activity) ==
    child \in Children /\ activity \in DOMAIN ACTIVITY_TYPES

\* handle_add_nfc_mapping -> add_nfc_mapping
AddNfcMappingService(child, activity) ==
    /\ "add_nfc_mapping" \in DOMAIN services
    /\ last' = [op |-> "add_nfc_mapping", child |-> child, activity |-> activity]
    /\ IF ~ValidMappingRequest(child, activity)
       THEN /\ exc' = "ValueError"
            /\ log' = <<>>
            /\ UNCHANGED <<waiting, timers>>
       ELSE LET cancelled == CancelTimeout(waiting, timers)
            IN  /\ (1..MaxTimers) \ cancelled # {}
                /\ timers' = cancelled \cup {NewHandle(cancelled)}
                /\ waiting' = [child |-> child, activity |-> activity,
                               timeout_handle |-> NewHandle(cancelled)]
                /\ log' = <<Notify("waiting_tag")>>
                /\ exc' = "none"
    /\ UNCHANGED <<data, store, entry_data, entry_options, listeners, services,
                   now, utc_offset,
                 config_entries, hass_data,
                 _state, _available, updates, tasks>>

\* a variant of the timeout handler that leaves the request pending
NfcTimeoutKeepsRequest(h) ==
    /\ h \in timers
    /\ timers' = timers \ {h}
    /\ last' = [op |-> "nfc_timeout", handle |-> h]
    /\ waiting' = waiting
    /\ log' = IF waiting # NoWaiting THEN <<Notify("nfc_timeout")>> ELSE <<>>
    /\ exc' = "none"
    /\ UNCHANGED <<data, store, entry_data, entry_options, listeners, services,
                   now, utc_offset,
                 config_entries, hass_data,
                 _state, _available, updates, tasks>>

\* the timer of add_nfc_mapping fires: timeout_handler
NfcTimeout(h) ==
    /\ h \in timers
    /\ timers' = timers \ {h}
    /\ last' = [op |-> "nfc_timeout", handle |-> h]
    /\ IF waiting # NoWaiting
       THEN waiting' = NoWaiting /\ log' = <<Notify("nfc_timeout")>>
       ELSE waiting' = waiting /\ log' = <<>>
    /\ exc' = "none"
    /\ UNCHANGED <<data, store, entry_data, entry_options, listeners, services,
                   now, utc_offset,
                 config_entries, hass_data,
                 _state, _available, updates, tasks>>

\* a tag_scanned event arrives: _handle_nfc_tag
TagScanned(tag_id, device_id, env) ==
    /\ "tag_scanned" \in listeners
    /\ last' = [op |-> "tag_scanned", tag_id |-> tag_id, device_id |-> device_id]
    /\ IF waiting # NoWaiting
       THEN /\ timers' = CancelTimeout(waiting, timers)
            /\ entry_data' = StoreMapping(entry_data, tag_id, waiting.child, waiting.activity)
            /\ waiting' = NoWaiting
            /\ log' = <<Notify("nfc_mapped")>>
            /\ exc' = "none"
            /\ UNCHANGED <<data, store>>
       ELSE /\ IF tag_id \notin DOMAIN NfcMappings(entry_data)
               THEN /\ log' = <<Notify("unknown_tag")>>
                    /\ exc' = "none"
                    /\ UNCHANGED <<data, store>>
               ELSE Commit(complete_activity(M0,
                               NfcMappings(entry_data)[tag_id].child,
                               NfcMappings(entry_data)[tag_id].activity,
                               device_id, TRUE, env))
            /\ UNCHANGED <<entry_data, waiting, timers>>
    /\ UNCHANGED <<entry_options, listeners, services, now, utc_offset,
                 config_entries, hass_data,
                 _state, _available, updates, tasks>>

\* handle_remove_nfc_mapping -> remove_nfc_mapping
RemoveNfcMappingService(tag_id) ==
    /\ "remove_nfc_mapping" \in DOMAIN services
    /\ last' = [op |-> "remove_nfc_mapping", tag_id |-> tag_id]
    /\ IF tag_id \notin DOMAIN NfcMappings(entry_data)
       THEN /\ exc' = "ValueError"
            /\ log' = <<>>
            /\ UNCHANGED entry_data
       ELSE /\ entry_data' = RemoveMapping(entry_data, tag_id)
            /\ log' = <<Notify("nfc_removed")>>
            /\ exc' = "none"
    /\ UNCHANGED <<data, store, entry_options, waiting, timers, listeners, services,
                   now, utc_offset,
                 config_entries, hass_data,
                 _state, _available, updates, tasks>>

-----------------------------------------------------------------------------
(* Initial states *)

\* config_entry.data as ConfigFlow.async_step_user creates it
EntryData(calendar_entity) ==
    [calendar_entity |-> calendar_entity,
     reset_time |-> "06:00:00",
     business_days_only |-> TRUE,
     nfc_mappings |-> NoMappings,
     openai_enabled |-> DEFAULT_OPENAI_ENABLED,
     openai_prompt |-> "prompt {child}"]

NoOptions == [k \in {} |-> NoneStr]

\* a state an earlier run left in the store: each child has completed its first
\* four activities at tick 1, and duarte has a daily phrase
StoredRoutine ==
    [c \in Children |->
        [DefaultChildData EXCEPT
            !.activities = [i \in DOMAIN @ |->
                IF i <= 4
                THEN SetKey([@[i] EXCEPT !.completed = TRUE, !.completed_at = 1],
                            "last_modified", 1)
                ELSE @[i]],
            !.last_activity_time = 1,
            !.last_reset = 1,
            !.daily_phrase = IF c = "duarte" THEN "phrase of the day" ELSE NoneStr]]

\* the state after the coordinator is constructed, before async_setup_entry
InitAt(stores, entry_datas, options, offsets) ==
    /\ data = NoData
    /\ store \in stores
    /\ entry_data \in entry_datas
    /\ entry_options \in options
    /\ waiting = NoWaiting
    /\ timers = {}
    /\ listeners = {}
    /\ services = NoServices
    /\ now = 1
    /\ utc_offset \in offsets
    /\ last = [op |-> "init"]
    /\ log = <<>>
    /\ exc = "none"
    /\ config_entries = (DOMAIN_NAME :> {ENTRY_ID}) @@ (FRIGATE_DOMAIN :> {})
    /\ hass_data = {}
    /\ ExampleCounterSensorInit

\* the same in the time zones of the model
InitWithoutTasks(stores, entry_datas, options) ==
    InitAt(stores, entry_datas, options, UtcOffsets)

\* no complete_activity call is in flight
InitWith(stores, entry_datas, options) ==
    /\ InitWithoutTasks(stores, entry_datas, options)
    /\ tasks = <<>>

\* options of the main specification: the defaults; a video reward with
\* calendar and announcements; an AI image reward
MainOptions ==
    {NoOptions,
     [reward_type |-> "youtube_video", calendar_entity |-> "calendar.family",
      announcements_enabled |-> TRUE, daily_phrase_enabled |-> TRUE,
      media_player_entity |-> "media_player.kitchen", openai_config_entry |-> "openai1"],
     [reward_type |-> "ai_image", openai_enabled |-> TRUE,
      calendar_entity |-> "calendar.family"]}

Init == InitWith({NoData, StoredRoutine}, {EntryData(NoneStr)}, MainOptions)

\* Setup, activity completion and reward regeneration
Next ==
    \/ \E env \in ResetEnvs : AsyncSetupEntry(env)
    \/ \E in \in CompleteInputs, env \in CompleteEnvs :
            CompleteActivityService(in[1], in[2], in[3], env)
    \/ \E child \in ChildInputs, env \in OneFaultRewardEnvs :
            RegenerateRewardService(child, env)

Spec == Init /\ [][Next]_vars

\* Setup, resets and the completion of one activity
NextReset ==
    \/ \E env \in ResetEnvs : AsyncSetupEntry(env)
    \/ \E child \in ChildInputs \cup {NoneStr}, env \in ResetEnvs :
            ResetRoutineService(child, env)
    \/ \E env \in CompleteEnvs :
            CompleteActivityService("duarte", "lunchbox", TRUE, env)

SpecReset == Init /\ [][NextReset]_vars

\* <<child, activity>> arguments of add_nfc_mapping: fixed activities of both
\* children, a calendar activity that is not in the list, and invalid requests
MappingInputs ==
    {<<"duarte", "lunchbox">>, <<"leonor", "lunchbox">>, <<"duarte", "swimming">>,
     <<"maria", "lunchbox">>, <<"duarte", "juggling">>}

InitNfc == InitWith({NoData, StoredRoutine}, {EntryData(NoneStr)}, {NoOptions})

\* Setup and the NFC handlers
NextNfc ==
    \/ \E env \in ResetEnvs : AsyncSetupEntry(env)
    \/ \E in \in MappingInputs : AddNfcMappingService(in[1], in[2])
    \/ \E h \in 1..MaxTimers : NfcTimeout(h)
    \/ \E tag_id \in TagInputs, device_id \in DeviceInputs, env \in CompleteEnvs :
            TagScanned(tag_id, device_id, env)
    \/ \E tag_id \in TagInputs : RemoveNfcMappingService(tag_id)

SpecNfc == InitNfc /\ [][NextNfc]_vars

\* every combination of reward type, OpenAI switch and OpenAI entry option,
\* and a reward type generate_reward has no branch for
RewardOptions ==
    {[reward_type |-> rt, openai_enabled |-> en] :
        rt \in {"quote", "youtube_video", "ai_image"}, en \in BOOLEAN}
    \cup {[reward_type |-> rt, openai_enabled |-> en, openai_config_entry |-> "openai1"] :
        rt \in {"quote", "youtube_video", "ai_image"}, en \in BOOLEAN}
    \cup {[reward_type |-> "sticker", openai_enabled |-> FALSE]}

InitReward == InitWith({NoData, StoredRoutine}, {EntryData(NoneStr)}, RewardOptions)

\* Setup, reward generation under every outcome of the external calls, and
\* the passing of time
NextReward ==
    \/ \E env \in ResetEnvs : AsyncSetupEntry(env)
    \/ \E child \in ChildInputs, env \in RewardEnvs :
            RegenerateRewardService(child, env)
    \/ Tick

SpecReward == InitReward /\ [][NextReward]_vars

\* a store written by an earlier version, with an activity name that
\* _migrate_activity_names replaces on load
LegacyStoredRoutine ==
    [StoredRoutine EXCEPT !["duarte"].activities[1].name = "Get dressed"]

\* options of the storage specification: the defaults, and a video reward
\* with the daily phrases
StoreOptions ==
    {NoOptions,
     [reward_type |-> "youtube_video", daily_phrase_enabled |-> TRUE,
      openai_config_entry |-> "openai1"]}

InitStore ==
    InitWith({NoData, StoredRoutine, LegacyStoredRoutine}, {EntryData(NoneStr)},
             StoreOptions)

\* Setup and every handler that changes the routine state
NextStore ==
    \/ \E env \in ResetEnvs : AsyncSetupEntry(env)
    \/ \E in \in {<<"duarte", "lunchbox", TRUE>>, <<"duarte", "dressed", FALSE>>,
                  <<"duarte", "juggling", TRUE>>},
          env \in CompleteEnvs :
            CompleteActivityService(in[1], in[2], in[3], env)
    \/ \E child \in {"leonor", "maria"}, outcome \in SaveFile :
            SavePhotoService(child, outcome)
    \/ \E child \in {"duarte", "maria"}, outcome \in SaveFile :
            SaveAudioService(child, outcome)
    \/ \E env \in OneFaultRewardEnvs : RegenerateRewardService("duarte", env)
    \/ \E env \in ResetEnvs : ResetRoutineService("leonor", env)
    \/ AddNfcMappingService("leonor", "lunchbox")
    \/ \E env \in CompleteEnvs : TagScanned("tag1", "phone1", env)

SpecStore == InitStore /\ [][NextStore]_vars

-----------------------------------------------------------------------------
(* config_flow.py of morning_routine and of frigate_counter, and the unload *)
(* of the morning_routine entry                                             *)

\* the number of config entries of one integration the model can hold
MaxEntries == 2

NoErrors == [k \in {} |-> NoneStr]

\* the dictionaries a flow step can be submitted with
UserInputs ==
    {NoOptions,
     [calendar_entity |-> ""],
     [calendar_entity |-> "calendar.family"],
     [calendar_entity |-> "calendar.ghost"]}

\* a step is called without user_input (None) or with one of the dictionaries
FlowInputs ==
    {<<FALSE, NoOptions>>} \cup {<<TRUE, user_input>> : user_input \in UserInputs}

async_abort(reason) ==
    [type |-> "abort", reason |-> reason, errors |-> NoErrors, data |-> NoOptions]

async_create_entry(d) ==
    [type |-> "create_entry", reason |-> NoneStr, errors |-> NoErrors, data |-> d]

async_show_form(errors) ==
    [type |-> "form", reason |-> NoneStr, errors |-> errors, data |-> NoOptions]

\* a variant of ConfigFlow.async_step_user without the check for an entry
async_step_user_unchecked(current_entries, submitted, user_input) ==
    IF submitted
    THEN LET calendar_entity == Get(user_input, "calendar_entity", NoneStr)
         IN  IF Truthy(calendar_entity) /\ calendar_entity \notin CalendarEntityIds
             THEN async_show_form([calendar_entity |-> "no_calendar"])
             ELSE async_create_entry(
                    [calendar_entity |-> calendar_entity,
                     reset_time |-> Get(user_input, "reset_time", "06:00:00"),
                     business_days_only |-> Get(user_input, "business_days_only", TRUE),
                     nfc_mappings |-> NoMappings,
                     openai_enabled |-> DEFAULT_OPENAI_ENABLED,
                     openai_prompt |-> "prompt {child}"])
    ELSE async_show_form(NoErrors)

\* ConfigFlow.async_step_user of morning_routine; current_entries is
\* self._async_current_entries(), submitted is `user_input is not None'
async_step_user(current_entries, submitted, user_input) ==
    IF current_entries # {} THEN async_abort("already_configured")
    ELSE IF submitted
    THEN LET calendar_entity == Get(user_input, "calendar_entity", NoneStr)
         IN  IF Truthy(calendar_entity) /\ calendar_entity \notin CalendarEntityIds
             THEN async_show_form([calendar_entity |-> "no_calendar"])
             ELSE async_create_entry(
                    [calendar_entity |-> calendar_entity,
                     reset_time |-> Get(user_input, "reset_time", "06:00:00"),
                     business_days_only |-> Get(user_input, "business_days_only", TRUE),
                     nfc_mappings |-> NoMappings,
                     openai_enabled |-> DEFAULT_OPENAI_ENABLED,
                     openai_prompt |-> "prompt {child}"])
    ELSE async_show_form(NoErrors)

\* OptionsFlowHandler.async_step_init
async_step_init(submitted, user_input) ==
    IF submitted
    THEN LET calendar_entity == Get(user_input, "calendar_entity", NoneStr)
         IN  IF Truthy(calendar_entity) /\ calendar_entity \notin CalendarEntityIds
             THEN async_show_form([calendar_entity |-> "no_calendar"])
             ELSE async_create_entry(
                    [calendar_entity |-> calendar_entity,
                     reset_time |-> Get(user_input, "reset_time", "06:00:00"),
                     business_days_only |-> Get(user_input, "business_days_only", TRUE),
                     openai_enabled |-> Get(user_input, "openai_enabled",
                                            DEFAULT_OPENAI_ENABLED),
                     openai_config_entry |-> Get(user_input, "openai_config_entry",
                                                 NoneStr),
                     openai_prompt |-> Get(user_input, "openai_prompt",
                                           "prompt {child}")])
    ELSE async_show_form(NoErrors)

\* ConfigFlow.async_step_user of frigate_counter
frigate_async_step_user(current_entries, submitted) ==
    IF current_entries # {} THEN async_abort("already_configured")
    ELSE IF submitted THEN async_create_entry(NoOptions)
    ELSE async_show_form(NoErrors)

\* the entry id the config entries manager gives to a new entry
NewEntryId(entries) == Cardinality(entries) + 1

\* one call of the user step of the morning_routine flow; the flow manager
\* adds the entry a create_entry result carries
ConfigFlowUserStep(submitted, user_input) ==
    LET entries == config_entries[DOMAIN_NAME]
        result == async_step_user(entries, submitted, user_input)
    IN  /\ Cardinality(entries) < MaxEntries
        /\ IF result.type = "create_entry"
           THEN /\ config_entries' =
                        [config_entries EXCEPT
                            ![DOMAIN_NAME] = entries \cup {NewEntryId(entries)}]
                /\ entry_data' = IF entries = {} THEN result.data ELSE entry_data
           ELSE UNCHANGED <<config_entries, entry_data>>
        /\ last' = [op |-> "config_flow.async_step_user", submitted |-> submitted,
                    user_input |-> user_input, result |-> result]
        /\ log' = <<>>
        /\ exc' = "none"
        /\ UNCHANGED <<data, store, entry_options, waiting, timers, listeners,
                       services, now, utc_offset, hass_data,
                 _state, _available, updates, tasks>>

\* one call of the init step of the options flow of the morning_routine entry
OptionsFlowInitStep(submitted, user_input) ==
    LET result == async_step_init(submitted, user_input)
    IN  /\ ENTRY_ID \in config_entries[DOMAIN_NAME]
        /\ entry_options' = IF result.type = "create_entry" THEN result.data
                            ELSE entry_options
        /\ last' = [op |-> "options_flow.async_step_init", submitted |-> submitted,
                    user_input |-> user_input, result |-> result]
        /\ log' = <<>>
        /\ exc' = "none"
        /\ UNCHANGED <<data, store, entry_data, waiting, timers, listeners,
                       services, now, utc_offset, config_entries, hass_data,
                 _state, _available, updates, tasks>>

\* one call of the user step of the frigate_counter flow
FrigateConfigFlowUserStep(submitted) ==
    LET entries == config_entries[FRIGATE_DOMAIN]
        result == frigate_async_step_user(entries, submitted)
    IN  /\ Cardinality(entries) < MaxEntries
        /\ config_entries' =
                IF result.type = "create_entry"
                THEN [config_entries EXCEPT
                        ![FRIGATE_DOMAIN] = entries \cup {NewEntryId(entries)}]
                ELSE config_entries
        /\ last' = [op |-> "frigate.async_step_user", submitted |-> submitted,
                    user_input |-> NoOptions, result |-> result]
        /\ log' = <<>>
        /\ exc' = "none"
        /\ UNCHANGED <<data, store, entry_data, entry_options, waiting, timers,
                       listeners, services, now, utc_offset, hass_data,
                 _state, _available, updates, tasks>>

\* MorningRoutineCoordinator.async_shutdown
async_shutdown(M) == Enter(M, "async_shutdown", NoneStr)

\* a variant of async_unload_entry that shuts down whatever the platforms return
AsyncUnloadEntryAlways(unload_ok) ==
    /\ ENTRY_ID \in hass_data
    /\ hass_data' = hass_data \ {ENTRY_ID}
    /\ Commit(async_shutdown(M0))
    /\ listeners' = {}
    /\ last' = [op |-> "async_unload_entry", unload_ok |-> unload_ok,
                result |-> unload_ok]
    /\ UNCHANGED <<entry_data, entry_options, waiting, timers, services, now,
                   utc_offset, config_entries,
                 _state, _available, updates, tasks>>

\* async_unload_entry; unload_ok is what async_unload_platforms returns
AsyncUnloadEntry(unload_ok) ==
    /\ ENTRY_ID \in hass_data
    /\ IF unload_ok
       THEN /\ hass_data' = hass_data \ {ENTRY_ID}
            /\ Commit(async_shutdown(M0))
            /\ listeners' = {}
       ELSE /\ Commit(M0)
            /\ UNCHANGED <<hass_data, listeners>>
    /\ last' = [op |-> "async_unload_entry", unload_ok |-> unload_ok,
                result |-> unload_ok]
    /\ UNCHANGED <<entry_data, entry_options, waiting, timers, services, now,
                   utc_offset, config_entries,
                 _state, _available, updates, tasks>>

\* before any flow has run: no entry of either integration
InitFlow ==
    /\ data = NoData
    /\ store \in {NoData, StoredRoutine}
    /\ entry_data = NoOptions
    /\ entry_options = NoOptions
    /\ waiting = NoWaiting
    /\ timers = {}
    /\ listeners = {}
    /\ services = NoServices
    /\ now = 1
    /\ utc_offset \in UtcOffsets
    /\ last = [op |-> "init"]
    /\ log = <<>>
    /\ exc = "none"
    /\ config_entries = (DOMAIN_NAME :> {}) @@ (FRIGATE_DOMAIN :> {})
    /\ hass_data = {}
    /\ ExampleCounterSensorInit
    /\ tasks = <<>>

\* The config flows, the options flow, setup, a tag scan and unload
NextFlow ==
    \/ \E in \in FlowInputs : ConfigFlowUserStep(in[1], in[2])
    \/ \E in \in FlowInputs : OptionsFlowInitStep(in[1], in[2])
    \/ \E submitted \in BOOLEAN : FrigateConfigFlowUserStep(submitted)
    \/ \E env \in ResetEnvs : AsyncSetupEntry(env)
    \/ \E env \in CompleteEnvs : TagScanned("tag1", "phone1", env)
    \/ \E unload_ok \in BOOLEAN : AsyncUnloadEntry(unload_ok)

SpecFlow == InitFlow /\ [][NextFlow]_vars

-----------------------------------------------------------------------------
(* Reading the log and the state *)

Saves(l) == {i \in DOMAIN l : l[i].kind = "save"}

Pushes(l) == {i \in DOMAIN l : l[i].kind = "push"}

Events(l, type) == {i \in DOMAIN l : l[i].kind = "event" /\ l[i].type = type}

Enters(l, fn) == {i \in DOMAIN l : l[i].kind = "enter" /\ l[i].fn = fn}

Returns(l, fn) == {i \in DOMAIN l : l[i].kind = "return" /\ l[i].fn = fn}

Calls(l, target, outcomes) ==
    {i \in DOMAIN l : l[i].kind = "call" /\ l[i].target = target
                      /\ l[i].outcome \in outcomes}

\* the least element of a non-empty set of positions
First(S) == CHOOSE i \in S : \A j \in S : i <= j

\* the positions at which the list acts holds the activity id
IndexesOf(acts, id) == {i \in DOMAIN acts : acts[i].id = id}

\* the share of completed activities of a list, in percent, rounded down
CompletionPercentage(acts) ==
    IF Len(acts) = 0 THEN 0
    ELSE (100 * Cardinality({i \in DOMAIN acts : acts[i].completed})) \div Len(acts)

KnownChildren == {"duarte", "leonor"}

KnownActivityIds ==
    {"dressed", "breakfast", "teeth", "schoolbag", "lunchbox",
     "music", "swimming", "jiujitsu", "taekwondo", "physical_education"}

ServiceNames ==
    {"complete_activity", "save_photo", "save_audio", "reset_routine",
     "regenerate_reward", "add_nfc_mapping", "remove_nfc_mapping",
     "list_nfc_mappings", "announce_time_remaining", "announce_time_with_weather",
     "announce_time_with_activities", "test_announce_completion", "get_history"}

ServicesWithoutInput ==
    {"list_nfc_mappings", "announce_time_remaining", "announce_time_with_weather",
     "announce_time_with_activities"}

-----------------------------------------------------------------------------
(* C1: reward generation and its fallback *)

\* the cases in which the configured reward cannot be produced, read from the
\* configuration and from the outcomes of the calls the handler made
RewardUnavailable ==
    LET reward_type == Get(entry_options, "reward_type",
                           Get(entry_data, "reward_type", "quote"))
        openai_enabled == Get(entry_options, "openai_enabled",
                              Get(entry_data, "openai_enabled", FALSE))
    IN  \/ /\ reward_type = "youtube_video"
           /\ Calls(log, "youtube", {"raise", "http_error", "no_videos"}) # {}
        \/ /\ reward_type = "ai_image"
           /\ \/ ~openai_enabled
              \/ Calls(log, "config_entries.async_entries", {"no_entries"}) # {}
              \/ Calls(log, "openai_conversation.generate_image", {"raise", "no_url"}) # {}
              \/ Calls(log, "download_reward_image", {"raise"}) # {}

-----------------------------------------------------------------------------
(* C2: the order of the steps of complete_activity *)

\* C2 (as stated): when complete_activity(child, a, completed=True) leaves every
\* activity of the child completed, the call persists the state, fires
\* activity_completed, runs generate_reward to its end, attempts the completion
\* announcement and pushes the data, in this order; otherwise it does not
\* invoke generate_reward.
C2_CompletionOrder ==
    (/\ last.op = "complete_activity"
     /\ last.child \in KnownChildren
     /\ IndexesOf(data[last.child].activities, last.activity) # {}) =>
        IF last.completed /\ \A i \in DOMAIN data[last.child].activities :
                                data[last.child].activities[i].completed
        THEN /\ Saves(log) # {}
             /\ Cardinality(Events(log, EVENT_ACTIVITY_COMPLETED)) = 1
             /\ Cardinality(Enters(log, "generate_reward")) = 1
             /\ Cardinality(Returns(log, "generate_reward")) = 1
             /\ Cardinality(Enters(log, "_announce_completion")) = 1
             /\ Pushes(log) # {}
             /\ First(Saves(log)) < First(Events(log, EVENT_ACTIVITY_COMPLETED))
             /\ First(Events(log, EVENT_ACTIVITY_COMPLETED))
                    < First(Enters(log, "generate_reward"))
             /\ First(Enters(log, "generate_reward"))
                    < First(Returns(log, "generate_reward"))
             /\ First(Returns(log, "generate_reward"))
                    < First(Enters(log, "_announce_completion"))
             /\ \E p \in Pushes(log) : p > First(Enters(log, "_announce_completion"))
        ELSE Enters(log, "generate_reward") = {}

-----------------------------------------------------------------------------
(* C3: the order of the steps of reset_routine *)

\* the children a reset entered with the argument child resets
ExpectedResetChildren(child) ==
    IF child \in KnownChildren THEN <<child>> ELSE <<"duarte", "leonor">>

\* C3: every reset_routine call, from the service or from the first refresh,
\* first replaces the selected children's activities by the fixed defaults and
\* saves, then runs the calendar sync, then the daily content generation, then
\* fires exactly one reset event listing the reset children, then pushes the
\* data; this holds whatever the calendar and the content calls answer.
C3_ResetOrder ==
    /\ Cardinality(Enters(log, "reset_routine")) <= 1
    /\ \A r \in Enters(log, "reset_routine") :
        LET sync == Enters(log, "_sync_calendar")
            content == Enters(log, "_generate_daily_content")
            reset == Events(log, EVENT_RESET)
            children == ExpectedResetChildren(log[r].child)
        IN  /\ Len(log) > r /\ log[r + 1].kind = "save"
            /\ Cardinality(sync) = 1 /\ Cardinality(content) = 1 /\ Cardinality(reset) = 1
            /\ r + 1 < First(sync)
            /\ First(sync) < First(content)
            /\ First(content) < First(reset)
            /\ First(reset) < Len(log)
            /\ log[Len(log)].kind = "push"
            /\ log[First(reset)].data.children = children
            /\ \A k \in DOMAIN children :
                  /\ data[children[k]].last_reset = now
                  /\ \A i \in DOMAIN FIXED_ACTIVITIES :
                        /\ data[children[k]].activities[i].id = FIXED_ACTIVITIES[i].id
                        /\ ~data[children[k]].activities[i].completed
            /\ exc = "none"

\* C3 witness: a reset of one child during which the calendar call raised
C3_Witness ==
    /\ last.op = "reset_routine"
    /\ last.child = "leonor"
    /\ Calls(log, "calendar.get_events", {"raise"}) # {}
    /\ \E i \in Events(log, EVENT_RESET) : log[i].data.children = <<"leonor">>
    /\ log[Len(log)].kind = "push"

-----------------------------------------------------------------------------
(* C4 - C8: NFC tag mapping *)

\* C4: a successful add_nfc_mapping(child, activity) leaves the request pending
\* with its timer armed, and the next tag_scanned event while it is pending,
\* whatever its tag id, stores tag_id -> (child, activity), leaves every other
\* mapping and config key as it was, cancels the timer, clears the request and
\* completes no activity.
C4_PendingScanStoresMapping ==
    [][/\ (last'.op = "add_nfc_mapping" /\ exc' = "none") =>
            /\ waiting' # NoWaiting
            /\ waiting'.child = last'.child
            /\ waiting'.activity = last'.activity
            /\ waiting'.timeout_handle \in timers'
       /\ (last'.op = "tag_scanned" /\ waiting # NoWaiting) =>
            LET tag == last'.tag_id
                before == Get(entry_data, "nfc_mappings", NoMappings)
                after == Get(entry_data', "nfc_mappings", NoMappings)
            IN  /\ DOMAIN after = DOMAIN before \cup {tag}
                /\ after[tag] = [child |-> waiting.child, activity |-> waiting.activity]
                /\ \A t \in DOMAIN before \ {tag} : after[t] = before[t]
                /\ DOMAIN entry_data' = DOMAIN entry_data \cup {"nfc_mappings"}
                /\ \A k \in DOMAIN entry_data \ {"nfc_mappings"} :
                      entry_data'[k] = entry_data[k]
                /\ waiting.timeout_handle \notin timers'
                /\ timers' = timers \ {waiting.timeout_handle}
                /\ waiting' = NoWaiting
                /\ data' = data /\ store' = store
                /\ Events(log', EVENT_ACTIVITY_COMPLETED) = {}
                /\ exc' = "none"
      ]_vars

\* C4 witness: a scan stored a mapping next to another one and ended the request
C4_Witness ==
    /\ last.op = "tag_scanned"
    /\ log = <<Notify("nfc_mapped")>>
    /\ waiting = NoWaiting
    /\ timers = {}
    /\ Cardinality(DOMAIN Get(entry_data, "nfc_mappings", NoMappings)) = 2
    /\ last.tag_id \in DOMAIN Get(entry_data, "nfc_mappings", NoMappings)

\* C5: the timeout handler clears the pending request and changes no mapping;
\* while no request is pending a tag_scanned event changes no mapping and
\* starts no request, and only add_nfc_mapping makes a request pending.
C5_TimeoutEndsMappingMode ==
    [][/\ last'.op = "nfc_timeout" =>
            /\ waiting' = NoWaiting
            /\ entry_data' = entry_data
            /\ last'.handle \notin timers'
       /\ (last'.op = "tag_scanned" /\ waiting = NoWaiting) =>
            /\ entry_data' = entry_data
            /\ waiting' = NoWaiting
            /\ Notify("nfc_mapped") \notin Range(log')
       /\ (waiting = NoWaiting /\ waiting' # NoWaiting) => last'.op = "add_nfc_mapping"
      ]_vars

\* C5 witness: the timer fired while a request was pending
C5_Witness ==
    /\ last.op = "nfc_timeout"
    /\ log = <<Notify("nfc_timeout")>>
    /\ waiting = NoWaiting
    /\ timers = {}

\* C6 (as stated): with no request pending, a scan of a mapped tag leaves the
\* mapped activity of the mapped child completed, and a scan of an unmapped tag
\* changes neither routine state nor mappings and fires no activity_completed.
C6_MappedScanCompletes ==
    [][(last'.op = "tag_scanned" /\ waiting = NoWaiting) =>
            LET mappings == Get(entry_data, "nfc_mappings", NoMappings)
                tag == last'.tag_id
            IN  IF tag \in DOMAIN mappings
                THEN \E i \in DOMAIN data'[mappings[tag].child].activities :
                        /\ data'[mappings[tag].child].activities[i].id = mappings[tag].activity
                        /\ data'[mappings[tag].child].activities[i].completed
                ELSE /\ data' = data /\ store' = store /\ entry_data' = entry_data
                     /\ Events(log', EVENT_ACTIVITY_COMPLETED) = {}
      ]_vars

\* C6 (amended): with no request pending, a scan of a tag mapped to an activity
\* that is in the child's list today marks that activity, and no other,
\* completed, with the time and the scanning device, saves, and fires one
\* activity_completed event; a scan of a tag that is unmapped, or mapped to an
\* activity absent from today's list, changes neither routine state nor
\* mappings and fires no activity_completed event.
C6_MappedScanCompletesListed ==
    [][(last'.op = "tag_scanned" /\ waiting = NoWaiting) =>
            LET mappings == Get(entry_data, "nfc_mappings", NoMappings)
                tag == last'.tag_id
                found == IF tag \in DOMAIN mappings
                         THEN IndexesOf(data[mappings[tag].child].activities,
                                        mappings[tag].activity)
                         ELSE {}
            IN  /\ entry_data' = entry_data
                /\ IF found # {}
                   THEN LET child == mappings[tag].child
                            idx == First(found)
                            done == data'[child].activities[idx]
                        IN  /\ done.id = mappings[tag].activity
                            /\ done.completed
                            /\ done.completed_at = now
                            /\ (last'.device_id # NoneStr) =>
                                  /\ "device_id" \in DOMAIN done
                                  /\ done.device_id = last'.device_id
                            /\ Len(data'[child].activities) = Len(data[child].activities)
                            /\ \A j \in DOMAIN data[child].activities \ {idx} :
                                  data'[child].activities[j] = data[child].activities[j]
                            /\ \A c \in DOMAIN data \ {child} : data'[c] = data[c]
                            /\ store'[child].activities[idx] = done
                            /\ Cardinality(Events(log', EVENT_ACTIVITY_COMPLETED)) = 1
                            /\ \A e \in Events(log', EVENT_ACTIVITY_COMPLETED) :
                                  /\ log'[e].data.child = child
                                  /\ log'[e].data.activity = mappings[tag].activity
                                  /\ log'[e].data.completed
                   ELSE /\ data' = data /\ store' = store
                        /\ Events(log', EVENT_ACTIVITY_COMPLETED) = {}
      ]_vars

\* C6 witness: a scan by a device completed the mapped activity
C6_Witness ==
    /\ last.op = "tag_scanned"
    /\ last.device_id = "phone1"
    /\ Events(log, EVENT_ACTIVITY_COMPLETED) # {}
    /\ last.tag_id \in DOMAIN Get(entry_data, "nfc_mappings", NoMappings)
    /\ \E i \in DOMAIN data["duarte"].activities :
          /\ data["duarte"].activities[i].id = "lunchbox"
          /\ data["duarte"].activities[i].completed
          /\ "device_id" \in DOMAIN data["duarte"].activities[i]

\* C7: add_nfc_mapping with an unknown child or an unknown activity type raises
\* ValueError and leaves the pending request, its timer and the mappings as
\* they were.
C7_InvalidRequestChangesNothing ==
    [][(/\ last'.op = "add_nfc_mapping"
        /\ \/ last'.child \notin KnownChildren
           \/ last'.activity \notin KnownActivityIds) =>
            /\ exc' = "ValueError"
            /\ waiting' = waiting
            /\ timers' = timers
            /\ entry_data' = entry_data
            /\ log' = <<>>
      ]_vars

\* C7 witness: an invalid request was refused while an earlier one is pending
C7_Witness ==
    /\ last.op = "add_nfc_mapping"
    /\ exc = "ValueError"
    /\ waiting # NoWaiting
    /\ waiting.timeout_handle \in timers

\* C8: remove_nfc_mapping(tag_id) raises ValueError and changes no mapping when
\* tag_id is unmapped; otherwise it removes that entry only and leaves every
\* other mapping and config key as it was; storing a mapping for an unmapped
\* tag and removing it again gives back the earlier table.
C8_RemoveExactlyOne ==
    /\ [](\A t \in TagInputs \ DOMAIN NfcMappings(entry_data) :
            \A in \in MappingInputs :
                /\ t \in DOMAIN NfcMappings(StoreMapping(entry_data, t, in[1], in[2]))
                /\ NfcMappings(RemoveMapping(
                        StoreMapping(entry_data, t, in[1], in[2]), t))
                   = NfcMappings(entry_data))
    /\ [][last'.op = "remove_nfc_mapping" =>
            LET tag == last'.tag_id
                before == Get(entry_data, "nfc_mappings", NoMappings)
                after == Get(entry_data', "nfc_mappings", NoMappings)
            IN  IF tag \notin DOMAIN before
                THEN exc' = "ValueError" /\ entry_data' = entry_data
                ELSE /\ exc' = "none"
                     /\ DOMAIN after = DOMAIN before \ {tag}
                     /\ \A t \in DOMAIN after : after[t] = before[t]
                     /\ DOMAIN entry_data' = DOMAIN entry_data
                     /\ \A k \in DOMAIN entry_data \ {"nfc_mappings"} :
                           entry_data'[k] = entry_data[k]
         ]_vars

\* C8 witness: one of two mappings was removed
C8_Witness ==
    /\ last.op = "remove_nfc_mapping"
    /\ exc = "none"
    /\ last.tag_id \notin DOMAIN Get(entry_data, "nfc_mappings", NoMappings)
    /\ Cardinality(DOMAIN Get(entry_data, "nfc_mappings", NoMappings)) = 1

-----------------------------------------------------------------------------
(* C9: the activity_completed event *)

\* C9: a complete_activity call for a known child and an activity in the
\* child's list fires exactly one activity_completed event, after a save that
\* holds the change, with the child, the activity id, the requested flag and
\* the child's completion percentage after the change.
C9_OneActivityCompletedEvent ==
    [][(/\ last'.op = "complete_activity"
        /\ last'.child \in KnownChildren
        /\ IndexesOf(data[last'.child].activities, last'.activity) # {}) =>
            LET fired == Events(log', EVENT_ACTIVITY_COMPLETED)
                idx == First(IndexesOf(data[last'.child].activities, last'.activity))
            IN  /\ Cardinality(fired) = 1
                /\ Saves(log') # {}
                /\ First(Saves(log')) < First(fired)
                /\ store'[last'.child].activities[idx].completed = last'.completed
                /\ data'[last'.child].activities[idx].completed = last'.completed
                /\ log'[First(fired)].data.child = last'.child
                /\ log'[First(fired)].data.activity = last'.activity
                /\ log'[First(fired)].data.completed = last'.completed
                /\ log'[First(fired)].data.progress
                      = CompletionPercentage(data'[last'.child].activities)
      ]_vars

\* C9 witness: the event of the last pending activity carries progress 100
C9_Witness ==
    /\ last.op = "complete_activity"
    /\ last.completed
    /\ \E i \in Events(log, EVENT_ACTIVITY_COMPLETED) :
          /\ log[i].data.progress = 100
          /\ log[i].data.child = last.child

-----------------------------------------------------------------------------
(* C10: the registered services *)

\* C10 (as stated): every one of the thirteen services async_setup_entry
\* registers is registered with an input schema.
C10_EveryServiceValidated ==
    IsSetUp =>
        /\ DOMAIN services = ServiceNames
        /\ \A s \in DOMAIN services : services[s] # NoneStr

\* C10 (amended): async_setup_entry registers the thirteen services; the nine
\* whose handlers read call data are registered with an input schema, and
\* list_nfc_mappings and the three announce_time services, whose handlers read
\* none, are registered without one.
C10_ServicesWithInputValidated ==
    IsSetUp =>
        /\ DOMAIN services = ServiceNames
        /\ \A s \in DOMAIN services :
              (services[s] = NoneStr) <=> (s \in ServicesWithoutInput)

\* C10 witness: the services are registered, list_nfc_mappings without schema
C10_Witness ==
    /\ IsSetUp
    /\ "list_nfc_mappings" \in DOMAIN services
    /\ services["list_nfc_mappings"] = NoneStr
    /\ services["get_history"] # NoneStr

-----------------------------------------------------------------------------
(* C11: the store and the in-memory state *)

\* the handlers C11 names
StateHandlers ==
    {"complete_activity", "save_photo", "save_audio", "regenerate_reward",
     "reset_routine", "tag_scanned"}

\* C11 (as stated): after any sequence of completed handlers the state last
\* written to the store equals the coordinator's in-memory routine state.
C11_StoreEqualsData ==
    (IsSetUp /\ last.op \in StateHandlers) => store = data

\* C11 (amended): once set up, between operations, the in-memory routine state
\* is what _load_data makes of the stored state: the stored state with the
\* activity names and icons of the current configuration.  A restart that
\* reloads the store therefore restores the in-memory state.
C11_StoreReloadsToData ==
    IsSetUp =>
        /\ store # NoData
        /\ DOMAIN data = DOMAIN store
        /\ \A c \in DOMAIN data :
              /\ DOMAIN data[c] = DOMAIN store[c]
              /\ \A k \in DOMAIN data[c] \ {"activities"} : data[c][k] = store[c][k]
              /\ Len(data[c].activities) = Len(store[c].activities)
              /\ \A i \in DOMAIN data[c].activities :
                    LET mem == data[c].activities[i]
                        disk == store[c].activities[i]
                    IN  /\ DOMAIN mem = DOMAIN disk
                        /\ \A k \in DOMAIN mem \ {"name", "icon"} : mem[k] = disk[k]
                        /\ mem.id \in KnownActivityIds =>
                              /\ mem.name = ACTIVITY_TYPES[mem.id].name
                              /\ mem.icon = ACTIVITY_TYPES[mem.id].icon

\* C11 witness: a saved audio recording is in memory and in the store
C11_Witness ==
    /\ last.op = "save_audio"
    /\ exc = "none"
    /\ data["duarte"].audio_recording = "audio.webm"
    /\ store["duarte"].audio_recording = "audio.webm"
    /\ store = data

-----------------------------------------------------------------------------
(* C12: the child sensor *)

\* the shortest list for which int((c / n) * 100) in double arithmetic differs
\* from the integer quotient 100 * c \div n (at c = 29)
FloatExactBelow == 50

\* C12: in every coordinator state the sensor value of each child is an
\* integer in 0..100, equal to floor(100 * completed / total) over the child's
\* activities and 0 when the child is missing or has no activities; it equals
\* _calculate_progress on the same data, and all_complete is true exactly when
\* the list is non-empty and every activity is completed.
C12_SensorValue ==
    \A child \in KnownChildren :
        LET value == native_value(data, child)
        IN  /\ value \in 0..100
            /\ IF child \notin DOMAIN data THEN
                  /\ value = 0
                  /\ extra_state_attributes(data, child) = NoData
               ELSE LET acts == data[child].activities
                        attrs == extra_state_attributes(data, child)
                    IN  /\ Len(acts) < FloatExactBelow
                        /\ value = CompletionPercentage(acts)
                        /\ value = _calculate_progress(data, child)
                        /\ attrs.progress = value
                        /\ attrs.all_complete <=>
                              (acts # <<>> /\ \A i \in DOMAIN acts : acts[i].completed)

\* C12 witness: two of six activities are completed and the value is 33
C12_Witness ==
    /\ "duarte" \in DOMAIN data
    /\ Len(data["duarte"].activities) = 6
    /\ native_value(data, "duarte") = 33
    /\ ~extra_state_attributes(data, "duarte").all_complete

-----------------------------------------------------------------------------
(* C13 *)

\* the calendar entities a flow step accepts: none, the empty one, an existing one
AcceptedCalendar(user_input) ==
    LET calendar_entity == Get(user_input, "calendar_entity", NoneStr)
    IN  ~Truthy(calendar_entity) \/ calendar_entity \in CalendarEntityIds

\* C13: the user step of the morning_routine flow and of the frigate_counter
\* flow aborts with reason already_configured and creates nothing whenever an
\* entry of the integration exists, so no integration ever has more than one
\* entry; the user step and the options step of morning_routine create an
\* entry only when they are submitted with an empty or an existing calendar
\* entity, and a submitted step with any other calendar entity shows the form
\* again with the error no_calendar and creates nothing.
C13_SingleEntryAndCalendarCheck ==
    /\ [](\A d \in DOMAIN config_entries : Cardinality(config_entries[d]) <= 1)
    /\ [][(last'.op = "config_flow.async_step_user"
             /\ config_entries[DOMAIN_NAME] # {})
          => /\ last'.result = async_abort("already_configured")
             /\ UNCHANGED <<config_entries, entry_data, entry_options>>]_vars
    /\ [][(last'.op = "frigate.async_step_user"
             /\ config_entries[FRIGATE_DOMAIN] # {})
          => /\ last'.result = async_abort("already_configured")
             /\ UNCHANGED <<config_entries, entry_data, entry_options>>]_vars
    /\ [][last'.op = "config_flow.async_step_user"
          => /\ (config_entries' # config_entries
                    <=> last'.result.type = "create_entry")
             /\ (last'.result.type = "create_entry"
                    => last'.submitted /\ AcceptedCalendar(last'.user_input))
             /\ ((config_entries[DOMAIN_NAME] = {}
                    /\ last'.submitted
                    /\ ~AcceptedCalendar(last'.user_input))
                    => /\ last'.result =
                            async_show_form([calendar_entity |-> "no_calendar"])
                       /\ UNCHANGED <<config_entries, entry_data>>)]_vars
    /\ [][last'.op = "options_flow.async_step_init"
          => /\ (last'.result.type = "create_entry"
                    => /\ last'.submitted
                       /\ AcceptedCalendar(last'.user_input)
                       /\ entry_options' = last'.result.data)
             /\ (last'.result.type # "create_entry"
                    => entry_options' = entry_options)
             /\ (last'.submitted /\ ~AcceptedCalendar(last'.user_input)
                    => last'.result =
                            async_show_form([calendar_entity |-> "no_calendar"]))]_vars

\* a submitted user step was aborted because the entry exists
C13_Witness ==
    /\ last.op = "config_flow.async_step_user"
    /\ last.submitted
    /\ last.result = async_abort("already_configured")
    /\ Cardinality(config_entries[DOMAIN_NAME]) = 1
    /\ Cardinality(config_entries[FRIGATE_DOMAIN]) = 1

-----------------------------------------------------------------------------
(* C14 *)

\* C14: async_unload_entry returns what unloading the platforms returned; when
\* that is true the coordinator is removed from hass.data and async_shutdown
\* runs once, removing every listener; when it is false async_shutdown does
\* not run, the coordinator stays in hass.data and its listeners stay
\* registered.
C14_UnloadFollowsPlatforms ==
    [][last'.op = "async_unload_entry"
       => /\ last'.result = last'.unload_ok
          /\ ENTRY_ID \in hass_data
          /\ IF last'.unload_ok
             THEN /\ ENTRY_ID \notin hass_data'
                  /\ Cardinality(Enters(log', "async_shutdown")) = 1
                  /\ listeners' = {}
             ELSE /\ hass_data' = hass_data
                  /\ Enters(log', "async_shutdown") = {}
                  /\ listeners' = listeners
                  /\ {"tag_scanned", "reset_time"} \subseteq listeners']_vars

\* the platforms unloaded and the coordinator was shut down
C14_Witness ==
    /\ last.op = "async_unload_entry"
    /\ last.unload_ok
    /\ last.result
    /\ hass_data = {}
    /\ listeners = {}
    /\ Enters(log, "async_shutdown") # {}
    /\ IsSetUp

-----------------------------------------------------------------------------
(* C15 *)

\* the positions of the calls to target between positions i and j of the log
CallsBetween(l, target, i, j) ==
    {k \in i..j : k \in DOMAIN l /\ l[k].kind = "call" /\ l[k].target = target}

\* the position where the generate_reward entered at position i returns
ReturnOf(l, i) ==
    First({j \in Returns(l, "generate_reward") : j > i} \cup {Len(l) + 1})

\* the positions of the log inside some generate_reward call
InsideGenerateReward(l) ==
    {k \in DOMAIN l : \E i \in Enters(l, "generate_reward") : i < k /\ k < ReturnOf(l, i)}

AllOutcomes(l, target) ==
    {k \in DOMAIN l : l[k].kind = "call" /\ l[k].target = target}

\* C15: no handler retries an external call. Within one generate_reward call
\* the playlist is fetched at most once and generate_image is called at most
\* once; within one reset_routine the calendar is asked for its events at most
\* once, and conversation.process, generate_reward and the playlist fetch of
\* the daily content run at most once per child; a failed call is the last
\* call to its target in that generate_reward call or for that child.
C15_NoRetry ==
    /\ \A i \in Enters(log, "generate_reward") :
            /\ Cardinality(CallsBetween(log, "youtube", i, ReturnOf(log, i))) <= 1
            /\ Cardinality(CallsBetween(log, "openai_conversation.generate_image",
                                        i, ReturnOf(log, i))) <= 1
            /\ Cardinality(CallsBetween(log, "download_reward_image",
                                        i, ReturnOf(log, i))) <= 1
    /\ Cardinality(Enters(log, "reset_routine")) <= 1
    /\ Cardinality(AllOutcomes(log, "calendar.get_events"))
            <= Cardinality(Enters(log, "reset_routine"))
    /\ Cardinality(AllOutcomes(log, "conversation.process"))
            <= Len(CHILDREN) * Cardinality(Enters(log, "reset_routine"))
    /\ Enters(log, "reset_routine") # {}
            => /\ \A c \in Children :
                    Cardinality({i \in Enters(log, "generate_reward") :
                                    log[i].child = c}) <= 1
               /\ Cardinality(AllOutcomes(log, "youtube") \ InsideGenerateReward(log))
                    <= Len(CHILDREN)

\* a reset in which the calendar call failed and a phrase request failed
C15_Witness ==
    /\ last.op = "reset_routine"
    /\ Calls(log, "calendar.get_events", {"raise"}) # {}
    /\ Calls(log, "conversation.process", {"raise"}) # {}
    /\ Cardinality(AllOutcomes(log, "conversation.process")) = Len(CHILDREN)
    /\ Calls(log, "youtube", {"raise", "http_error", "no_videos"}) # {}

-----------------------------------------------------------------------------
(* C16 *)

\* the example counter alone, from its construction
InitCounter ==
    /\ InitFlow
    /\ store = NoData

SpecCounter == InitCounter /\ [][ExampleCounterUpdate]_vars

\* C16: the example counter starts at 0, and after n calls of update() its
\* state is n and it is available; every call adds exactly 1.
C16_CounterCountsUpdates ==
    /\ [](_state = updates /\ _available = TRUE)
    /\ (_state = 0)
    /\ [][_state' = _state + 1 /\ _available']_vars

\* the counter after several updates
C16_Witness ==
    /\ updates = 100
    /\ _state = 100
    /\ _available

-----------------------------------------------------------------------------
(* C17 *)

\* C17 (as stated): generate_reward(child) with save_only=False for a known
\* child fires exactly one routine_complete event, whatever reward type is
\* configured and whichever external calls fail; the save_only=True calls of a
\* reset fire none; for an unknown child it has no effect at all.
C17_OneRoutineCompletePerCall ==
    /\ []((last.op = "regenerate_reward" /\ last.child \in KnownChildren)
            => Cardinality(Events(log, EVENT_ROUTINE_COMPLETE)) = 1)
    /\ [](last.op \in {"reset_routine", "async_setup_entry"}
            => Events(log, EVENT_ROUTINE_COMPLETE) = {})
    /\ []((last.op = "regenerate_reward" /\ last.child \notin KnownChildren)
            => log = <<>> /\ exc = "none")
    /\ [][(last'.op = "regenerate_reward" /\ last'.child \notin KnownChildren)
            => UNCHANGED <<data, store>>]_vars

-----------------------------------------------------------------------------
(* C18: complete_activity calls that interleave at the await of _save_data *)

\* the number of complete_activity calls in flight
MaxTasks == 2

Tasks == 1..MaxTasks

IdleTask == [pc |-> "idle", child |-> NoneStr, activity |-> NoneStr, completed |-> FALSE]

\* a state an earlier run left in the store: each child has completed its
\* first three activities
TwoPendingRoutine ==
    [c \in Children |->
        [StoredRoutine[c] EXCEPT
            !.activities[4] = DefaultChildData.activities[4]]]

\* the arguments of the interleaved calls
TaskInputs ==
    {<<"duarte", "schoolbag", TRUE>>, <<"duarte", "lunchbox", TRUE>>,
     <<"duarte", "lunchbox", FALSE>>, <<"duarte", "juggling", TRUE>>}

\* the machine record a resumed call continues from: the log is the log of all
\* the calls so far
Mc == [data |-> data, store |-> store, log |-> log, exc |-> "none"]

\* complete_activity from its start to the await of _save_data (1016-1057), or
\* to its return when the child or the activity is unknown
CompleteActivityBegin(t, child, activity_id, completed) ==
    /\ "complete_activity" \in DOMAIN services
    /\ tasks[t].pc = "idle"
    /\ LET idx == IF child \in Children
                  THEN FindActivity(data[child].activities, activity_id) ELSE 0
       IN  IF idx = 0
           THEN /\ tasks' = [tasks EXCEPT ![t] =
                        [pc |-> "done", child |-> child, activity |-> activity_id,
                         completed |-> completed]]
                /\ UNCHANGED data
           ELSE /\ tasks' = [tasks EXCEPT ![t] =
                        [pc |-> "saving", child |-> child, activity |-> activity_id,
                         completed |-> completed]]
                /\ data' = complete_activity_marked(Mc, child, idx, NoneStr,
                                                    completed).data
    /\ last' = [op |-> "complete_activity.begin", task |-> t]
    /\ UNCHANGED <<store, log, exc, entry_data, entry_options, waiting, timers,
                   listeners, services, now, utc_offset, config_entries, hass_data,
                   _state, _available, updates>>

\* complete_activity from the completion of store.async_save to its end
\* (1057-1081)
CompleteActivityResume(t, env) ==
    /\ tasks[t].pc = "saving"
    /\ Commit(complete_activity_saved(Mc, tasks[t].child, tasks[t].activity,
                                      tasks[t].completed, env))
    /\ tasks' = [tasks EXCEPT ![t].pc = "done"]
    /\ last' = [op |-> "complete_activity.resume", task |-> t]
    /\ UNCHANGED <<entry_data, entry_options, waiting, timers, listeners, services,
                   now, utc_offset, config_entries, hass_data,
                   _state, _available, updates>>

InitConcurrent ==
    /\ InitWithoutTasks({TwoPendingRoutine}, {EntryData(NoneStr)},
                {NoOptions, [reward_type |-> "youtube_video"]})
    /\ tasks = [t \in Tasks |-> IdleTask]

\* Setup, and complete_activity calls that are suspended while the store writes
NextConcurrent ==
    \/ \E env \in ResetEnvs : AsyncSetupEntry(env)
    \/ \E t \in Tasks, in \in TaskInputs :
            CompleteActivityBegin(t, in[1], in[2], in[3])
    \/ \E t \in Tasks, env \in CompleteEnvs : CompleteActivityResume(t, env)

SpecConcurrent == InitConcurrent /\ [][NextConcurrent]_vars

\* the two calls have ended and were the completions of two distinct activities
\* of duarte
TwoCompletionsEnded ==
    /\ \A t \in {1, 2} : /\ tasks[t].pc = "done"
                        /\ tasks[t].child = "duarte"
                        /\ tasks[t].completed
    /\ {tasks[1].activity, tasks[2].activity} = {"schoolbag", "lunchbox"}
    /\ \A t \in Tasks \ {1, 2} : tasks[t].pc = "idle"

\* C18 (as stated): when two complete_activity(completed=True) calls complete
\* the last two pending activities of a child, however they interleave at the
\* await of the storage write, generate_reward is invoked once and one
\* routine_complete event is fired.
C18_RewardOnce ==
    TwoCompletionsEnded
        => /\ Cardinality(Enters(log, "generate_reward")) = 1
           /\ Cardinality(Events(log, EVENT_ROUTINE_COMPLETE)) = 1

-----------------------------------------------------------------------------
(* C19 *)

\* C19 (as stated): a routine_complete event for a child is fired only when
\* every activity of that child is completed, whichever of complete_activity,
\* regenerate_reward, reset_routine and a tag scan fires it.
C19_RoutineCompleteOnlyWhenAllDone ==
    \A i \in Events(log, EVENT_ROUTINE_COMPLETE) :
        /\ log[i].data.child \in DOMAIN data
        /\ _is_child_complete(data, log[i].data.child)

-----------------------------------------------------------------------------
(* C20 *)

\* C20: complete_activity for a child that is not a known child, or for an
\* activity id that is not in the child's activity list, leaves the routine
\* state and the store as they were, saves nothing, fires no event, pushes
\* nothing and raises nothing.
C20_UnknownTargetHasNoEffect ==
    [][(/\ last'.op = "complete_activity"
        /\ \/ last'.child \notin KnownChildren
           \/ last'.activity \notin
                {data[last'.child].activities[i].id :
                    i \in DOMAIN data[last'.child].activities})
       => /\ data' = data
          /\ store' = store
          /\ log' = <<>>
          /\ exc' = "none"]_vars

\* complete_activity was called for an activity that is not in duarte's list,
\* while other activities of duarte are completed
C20_Witness ==
    /\ last.op = "complete_activity"
    /\ last.child = "duarte"
    /\ last.activity = "juggling"
    /\ \A i \in DOMAIN data["duarte"].activities :
            data["duarte"].activities[i].id # "juggling"
    /\ \E i \in DOMAIN data["duarte"].activities :
            data["duarte"].activities[i].completed
    /\ log = <<>>
    /\ exc = "none"

-----------------------------------------------------------------------------
(* C21 *)

\* the ids of the activities of a child
ActivityIds(d, child) ==
    {d[child].activities[i].id : i \in DOMAIN d[child].activities}

\* records a and b agree on every key outside `keys'
SameExcept(a, b, keys) ==
    /\ DOMAIN a \ keys = DOMAIN b \ keys
    /\ \A k \in DOMAIN a \ keys : a[k] = b[k]

\* C21: a complete_activity(child, a, completed) that finds activity a changes,
\* in the record of that child, only the completed, completed_at,
\* last_modified and device_id fields of the first activity with id a, the
\* child's last_activity_time and its reward fields; every other activity of
\* the child and the record of every other child stay as they were.
C21_CompleteActivityFrame ==
    [][(/\ last'.op = "complete_activity"
        /\ last'.child \in KnownChildren
        /\ last'.activity \in ActivityIds(data, last'.child))
       => LET child == last'.child
              idx == FindActivity(data[child].activities, last'.activity)
          IN  /\ DOMAIN data' = DOMAIN data
              /\ \A c \in DOMAIN data \ {child} : data'[c] = data[c]
              /\ SameExcept(data'[child], data[child],
                            {"activities", "last_activity_time", "reward_image",
                             "reward_video_id"})
              /\ DOMAIN data'[child].activities = DOMAIN data[child].activities
              /\ \A i \in DOMAIN data[child].activities :
                    IF i = idx
                    THEN SameExcept(data'[child].activities[i],
                                    data[child].activities[i],
                                    {"completed", "completed_at", "last_modified",
                                     "device_id"})
                    ELSE data'[child].activities[i] = data[child].activities[i]
              /\ data'[child].activities[idx].completed = last'.completed]_vars

\* a completion of duarte's last activity that stored a reward video while
\* leonor has completed activities
C21_Witness ==
    /\ last.op = "complete_activity"
    /\ last.child = "duarte"
    /\ last.activity = "lunchbox"
    /\ last.completed
    /\ data["duarte"].reward_video_id # NoneStr
    /\ \E i \in DOMAIN data["leonor"].activities : data["leonor"].activities[i].completed
    /\ \E i \in DOMAIN data["leonor"].activities : ~data["leonor"].activities[i].completed

-----------------------------------------------------------------------------
(* The routine from freshly initialised data: C22, C23 *)

\* the defaults, and a calendar
RoutineOptions == {NoOptions, [calendar_entity |-> "calendar.family"]}

\* the environments that differ in the answer of the calendar only
CalendarEnvs == {[EnvOk EXCEPT !.cal = c] : c \in CalendarOutcomes}

\* nothing was ever stored
InitRoutine == InitWith({NoData}, {EntryData(NoneStr)}, RoutineOptions)

\* Setup, completions and un-completions by service and by tag, resets with
\* their calendar sync, and the passing of time
NextRoutine ==
    \/ \E env \in CalendarEnvs : AsyncSetupEntry(env)
    \/ \E activity \in {"lunchbox", "music"}, completed \in BOOLEAN :
            CompleteActivityService("duarte", activity, completed, EnvOk)
    \/ \E child \in {"leonor", NoneStr}, env \in CalendarEnvs :
            ResetRoutineService(child, env)
    \/ AddNfcMappingService("duarte", "lunchbox")
    \/ TagScanned("tag1", "phone1", EnvOk)
    \/ Tick

SpecRoutine == InitRoutine /\ [][NextRoutine]_vars

\* C22: from freshly initialised data, in every state every activity is
\* completed exactly when its completed_at is not None, and only a completed
\* activity has a device_id.
C22_CompletedAtAndDevice ==
    \A c \in DOMAIN data : \A i \in DOMAIN data[c].activities :
        LET a == data[c].activities[i]
        IN  /\ a.completed <=> a.completed_at # NoTime
            /\ "device_id" \in DOMAIN a => a.completed

\* an activity completed by a tag scan, with its device, beside an incomplete
\* calendar activity
C22_Witness ==
    /\ data # NoData
    /\ \E i \in DOMAIN data["duarte"].activities :
            LET a == data["duarte"].activities[i]
            IN  "device_id" \in DOMAIN a /\ a.completed /\ a.completed_at # NoTime
    /\ \E i \in DOMAIN data["duarte"].activities :
            LET a == data["duarte"].activities[i]
            IN  /\ "last_modified" \in DOMAIN a
                /\ ~a.completed
                /\ a.source = "calendar"

-----------------------------------------------------------------------------
(* C23 *)

\* C23: from freshly initialised data, in every state the activity list of
\* each child starts with the five fixed activities in the order of
\* FIXED_ACTIVITIES, every later activity comes from the calendar, and no id
\* occurs twice in a list.
C23_FixedThenCalendar ==
    \A c \in DOMAIN data :
        LET acts == data[c].activities
        IN  /\ Len(acts) >= Len(FIXED_ACTIVITIES)
            /\ Len(FIXED_ACTIVITIES) = 5
            /\ \A i \in DOMAIN FIXED_ACTIVITIES :
                    /\ acts[i].id = FIXED_ACTIVITIES[i].id
                    /\ acts[i].source = "default"
            /\ <<acts[1].id, acts[2].id, acts[3].id, acts[4].id, acts[5].id>>
                    = <<"dressed", "breakfast", "teeth", "schoolbag", "lunchbox">>
            /\ \A i \in DOMAIN acts :
                    i > Len(FIXED_ACTIVITIES) => acts[i].source = "calendar"
            /\ \A i, j \in DOMAIN acts : acts[i].id = acts[j].id => i = j

\* duarte's list holds a calendar activity after a reset of leonor alone, whose
\* calendar sync found the same event again
C23_Witness ==
    /\ last.op = "reset_routine"
    /\ last.child = "leonor"
    /\ Calls(log, "calendar.get_events", {"ok"}) # {}
    /\ Len(data["duarte"].activities) = 6
    /\ data["duarte"].activities[6].id = "music"
    /\ data["duarte"].last_reset < data["leonor"].last_reset
    /\ data["duarte"].last_calendar_sync = data["leonor"].last_reset

-----------------------------------------------------------------------------
(* C24 *)

\* the child record was reset at the current time
WasReset(r) ==
    /\ r.last_reset = now
    /\ r.photo_path = NoneStr
    /\ r.audio_recording = NoneStr
    /\ \A i \in DOMAIN r.activities :
            ~r.activities[i].completed /\ r.activities[i].completed_at = NoTime

\* the child record r1 was not reset: it is r0 but for what the calendar sync
\* and the daily content add
NotReset(r0, r1) ==
    /\ r1.last_reset = r0.last_reset
    /\ r1.photo_path = r0.photo_path
    /\ r1.audio_recording = r0.audio_recording
    /\ Len(r1.activities) >= Len(r0.activities)
    /\ \A i \in DOMAIN r0.activities : r1.activities[i] = r0.activities[i]

\* C24: reset_routine(child) resets the named child and no other when child is
\* a known child, and resets every child when child is omitted, empty or a
\* name that is not a known child.
C24_ResetSelection ==
    [][last'.op = "reset_routine"
       => IF last'.child \in KnownChildren
          THEN /\ WasReset(data'[last'.child])
               /\ \A c \in KnownChildren \ {last'.child} : NotReset(data[c], data'[c])
          ELSE \A c \in KnownChildren : WasReset(data'[c])]_vars

\* leonor alone was reset while duarte keeps completed activities
C24_Witness ==
    /\ last.op = "reset_routine"
    /\ last.child = "leonor"
    /\ WasReset(data["leonor"])
    /\ \E i \in DOMAIN data["duarte"].activities : data["duarte"].activities[i].completed

-----------------------------------------------------------------------------
(* C25 *)

\* the activities of record r are the fixed ones, all incomplete, followed by
\* what _parse_calendar_events makes of the events the calendar answered
FreshActivities(c, r) ==
    /\ \A i \in DOMAIN r.activities :
            ~r.activities[i].completed /\ r.activities[i].completed_at = NoTime
    /\ Len(r.activities) >= Len(FIXED_ACTIVITIES)
    /\ SubSeq(r.activities, 1, Len(FIXED_ACTIVITIES)) = _get_default_activities
    /\ IF Calls(log, "calendar.get_events", {"ok"}) = {}
       THEN Len(r.activities) = Len(FIXED_ACTIVITIES)
       ELSE \E resp \in CalendarResponses :
                /\ ~resp.raises
                /\ SubSeq(r.activities, Len(FIXED_ACTIVITIES) + 1, Len(r.activities))
                        = _parse_calendar_events(c, resp.events)

\* C25 (as stated): when reset_routine returns, every child it reset has only
\* incomplete activities, the fixed ones and those of today's calendar events,
\* has photo_path, audio_recording, reward_image and reward_video_id None, and
\* has last_reset at the time of the reset.
C25_ResetClearsRewards ==
    last.op = "reset_routine"
        => \A k \in DOMAIN ExpectedResetChildren(last.child) :
              LET c == ExpectedResetChildren(last.child)[k]
              IN  /\ FreshActivities(c, data[c])
                  /\ data[c].photo_path = NoneStr
                  /\ data[c].audio_recording = NoneStr
                  /\ data[c].reward_image = NoneStr
                  /\ data[c].reward_video_id = NoneStr
                  /\ data[c].last_reset = now

\* C25 (amended): as above, but a reward field is None only as far as the daily
\* content did not pre-generate it: reward_video_id holds the video of a
\* successful playlist fetch when the reward type is youtube_video, and
\* reward_image holds the downloaded image when the reward type is ai_image
\* with OpenAI enabled and the generation and the download succeeded.
C25_ResetThenPregenerates ==
    last.op = "reset_routine"
        => \A k \in DOMAIN ExpectedResetChildren(last.child) :
              LET c == ExpectedResetChildren(last.child)[k]
                  reward_type == _get_config_value("reward_type", DEFAULT_REWARD_TYPE)
              IN  /\ FreshActivities(c, data[c])
                  /\ data[c].photo_path = NoneStr
                  /\ data[c].audio_recording = NoneStr
                  /\ data[c].last_reset = now
                  /\ IF /\ reward_type = "youtube_video"
                        /\ Calls(log, "youtube", {"raise", "http_error", "no_videos"}) = {}
                     THEN data[c].reward_video_id \notin {NoneStr, "raise", "http_error",
                                                          "no_videos"}
                     ELSE data[c].reward_video_id = NoneStr
                  /\ IF /\ reward_type = "ai_image"
                        /\ _get_config_value("openai_enabled", DEFAULT_OPENAI_ENABLED)
                        /\ Calls(log, "download_reward_image", {"ok"}) # {}
                     THEN data[c].reward_image = "reward.png"
                     ELSE data[c].reward_image = NoneStr

\* a reset of all children after which duarte has a calendar activity and a
\* pre-selected reward video
C25_Witness ==
    /\ last.op = "reset_routine"
    /\ last.child = NoneStr
    /\ Len(data["duarte"].activities) > Len(FIXED_ACTIVITIES)
    /\ data["duarte"].reward_video_id # NoneStr
    /\ data["leonor"].reward_video_id # NoneStr
    /\ data["duarte"].last_reset = now

-----------------------------------------------------------------------------
(* C26 *)

\* C26: reset_routine(child) for a known child leaves, in the record of every
\* other child, each existing activity at its position and as it was, and
\* every field but last_calendar_sync, daily_phrase, reward_image and
\* reward_video_id as it was; the other child's list can only grow, by
\* activities from the calendar.
C26_ResetFrame ==
    [][(last'.op = "reset_routine" /\ last'.child \in KnownChildren)
       => \A c \in KnownChildren \ {last'.child} :
            /\ SameExcept(data'[c], data[c],
                          {"activities", "last_calendar_sync", "daily_phrase",
                           "reward_image", "reward_video_id"})
            /\ Len(data'[c].activities) >= Len(data[c].activities)
            /\ \A i \in DOMAIN data'[c].activities :
                    IF i <= Len(data[c].activities)
                    THEN data'[c].activities[i] = data[c].activities[i]
                    ELSE data'[c].activities[i].source = "calendar"]_vars

\* a reset of leonor alone gave duarte, who keeps four completed activities, a
\* calendar activity
C26_Witness ==
    /\ last.op = "reset_routine"
    /\ last.child = "leonor"
    /\ data["duarte"].activities[1].completed
    /\ data["duarte"].activities[4].completed
    /\ Len(data["duarte"].activities) = 6
    /\ data["duarte"].activities[6].source = "calendar"
    /\ \A i \in DOMAIN data["leonor"].activities : ~data["leonor"].activities[i].completed

-----------------------------------------------------------------------------
(* The automatic resets: C27, C28, C29 *)

\* the time zones of the time specification: UTC, and one tick ahead of UTC
TimeOffsets == {0, 1}

\* resets on business days only (the default), and on every day
TimeOptions == {NoOptions, [business_days_only |-> FALSE]}

InitTime ==
    /\ InitAt({NoData, StoredRoutine}, {EntryData(NoneStr)}, TimeOptions, TimeOffsets)
    /\ tasks = <<>>

\* Setup, the periodic refresh, the scheduled reset, the reset service, a
\* completion and the passing of time
NextTime ==
    \/ AsyncSetupEntry(EnvOk)
    \/ PeriodicRefresh(EnvOk)
    \/ ScheduledReset(EnvOk)
    \/ \E child \in {"leonor", NoneStr} : ResetRoutineService(child, EnvOk)
    \/ CompleteActivityService("duarte", "lunchbox", TRUE, EnvOk)
    \/ Tick

SpecTime == InitTime /\ [][NextTime]_vars

\* every child was last reset on the local day the clock is in
AllResetToday ==
    /\ data # NoData
    /\ \A c \in Children :
            /\ data[c].last_reset # NoTime
            /\ (data[c].last_reset + utc_offset) \div TicksPerDay = LocalDate(now)

\* C27 (as stated): once every child was reset on a local day, _should_reset is
\* False for the rest of that local day, so a periodic refresh resets nothing
\* more on that day.
C27_NoSecondResetToday ==
    /\ [](AllResetToday => ~_should_reset(data))
    /\ [][(AllResetToday /\ last'.op = "refresh")
            => Enters(log', "reset_routine") = {}]_vars

\* C28 (as stated): a refresh, the first one of setup included, resets the
\* routine only when the reset time of the local day has passed.
C28_RefreshResetsAfterResetTime ==
    (last.op \in {"refresh", "async_setup_entry"} /\ Enters(log, "reset_routine") # {})
        => LocalTimeOfDay(now) >= ResetTick

\* C29 (as stated): with business_days_only true, neither the scheduled reset
\* nor a refresh resets the routine on a Saturday or a Sunday.
C29_NoAutomaticResetAtWeekend ==
    (/\ last.op \in {"refresh", "async_setup_entry", "scheduled_reset"}
     /\ _get_config_value("business_days_only", TRUE)
     /\ Weekday(LocalDate(now)) >= 5)
        => Enters(log, "reset_routine") = {}

-----------------------------------------------------------------------------
(* _parse_calendar_events as a function of its arguments: C30 *)

\* the longest list of events parsed
MaxEvents == 3

\* summaries of calendar events: music classes and other activities of both
\* children, and an event of neither
ParseSummaries ==
    {<<"D-Música">>, <<"D-Música", " Trompete">>, <<"D-Natação">>, <<"D-Jiu Jitsu">>,
     <<"D-Natação", " Livre">>, <<"L-Música", " Coro">>, <<"L-Taekwondo">>, <<"Dentista">>}

\* calendar events: with a summary, and without the key
ParseEventInputs ==
    {[summary |-> s] : s \in ParseSummaries} \cup {[start |-> "08:00"]}

ParseEventLists == UNION {[1..n -> ParseEventInputs] : n \in 0..MaxEvents}

\* the children asked for: the two configured ones and one without a mapping
ParseChildren == {"duarte", "leonor", "maria"}

\* the coordinator as constructed, and the arguments of the call to come
InitParse ==
    /\ data = NoData
    /\ store = NoData
    /\ entry_data = EntryData(NoneStr)
    /\ entry_options = NoOptions
    /\ waiting = NoWaiting
    /\ timers = {}
    /\ listeners = {}
    /\ services = NoServices
    /\ now = 1
    /\ utc_offset \in UtcOffsets
    /\ \E child \in ParseChildren, events \in ParseEventLists :
            last = [op |-> "parse_input", child |-> child, events |-> events]
    /\ log = <<>>
    /\ exc = "none"
    /\ config_entries = (DOMAIN_NAME :> {ENTRY_ID}) @@ (FRIGATE_DOMAIN :> {})
    /\ hass_data = {}
    /\ ExampleCounterSensorInit
    /\ tasks = <<>>

\* the call _parse_calendar_events(child, events)
ParseCalendarEvents ==
    /\ last.op = "parse_input"
    /\ last' = [op |-> "_parse_calendar_events", child |-> last.child,
                events |-> last.events,
                result |-> _parse_calendar_events(last.child, last.events)]
    /\ UNCHANGED <<data, store, entry_data, entry_options, waiting, timers, listeners,
                   services, now, utc_offset, log, exc, config_entries, hass_data,
                   _state, _available, updates, tasks>>

NextParse == ParseCalendarEvents

SpecParse == InitParse /\ [][NextParse]_vars

\* the activity id an event stands for: that of the first pattern of the child,
\* in declaration order, that its summary matches; NoneStr when none matches
EventActivityId(child, event) ==
    LET mappings == CALENDAR_ACTIVITY_MAPPING[child]
        summary == IF "summary" \in DOMAIN event THEN event.summary ELSE <<>>
        hits == {i \in DOMAIN mappings : fnmatch(summary, mappings[i].pattern)}
    IN  IF hits = {} THEN NoneStr
        ELSE mappings[CHOOSE i \in hits : \A j \in hits : i <= j].activity.id

\* the position of the first event that stands for the activity id
FirstEventOf(child, events, id) ==
    CHOOSE k \in DOMAIN events :
        /\ EventActivityId(child, events[k]) = id
        /\ \A j \in DOMAIN events : EventActivityId(child, events[j]) = id => k <= j

\* C30: for a child with a calendar mapping _parse_calendar_events returns one
\* incomplete activity of source "calendar" per distinct activity id that the
\* events stand for (first matching pattern of each event, in declaration
\* order), in the order of the first event of each id; an event that matches no
\* pattern adds nothing; a child without a mapping gets the empty list.
C30_ParseCalendarEvents ==
    last.op = "_parse_calendar_events" =>
        LET child == last.child
            events == last.events
            result == last.result
        IN  IF child \notin DOMAIN CALENDAR_ACTIVITY_MAPPING THEN result = <<>>
            ELSE LET ids == {EventActivityId(child, events[k]) : k \in DOMAIN events}
                                \ {NoneStr}
                 IN  /\ {result[i].id : i \in DOMAIN result} = ids
                     /\ Len(result) = Cardinality(ids)
                     /\ \A i \in DOMAIN result :
                            /\ result[i].completed = FALSE
                            /\ result[i].completed_at = NoTime
                            /\ result[i].source = "calendar"
                            /\ result[i].event_summary =
                                 events[FirstEventOf(child, events, result[i].id)].summary
                     /\ \A i, j \in DOMAIN result :
                            i < j => FirstEventOf(child, events, result[i].id)
                                        < FirstEventOf(child, events, result[j].id)

\* three events of duarte's calendar, two of them music classes around an event
\* of nobody, the third a swimming lesson: two activities, music then swimming
C30_Witness ==
    /\ last.op = "_parse_calendar_events"
    /\ last.child = "duarte"
    /\ last.events = <<[summary |-> <<"D-Música", " Trompete">>],
                       [summary |-> <<"D-Natação">>],
                       [summary |-> <<"D-Música">>]>>
    /\ Len(last.result) = 2
    /\ last.result[1].id = "music"
    /\ last.result[2].id = "swimming"

-----------------------------------------------------------------------------
(* _load_data as a function of the stored state: C31 *)

\* what the store may hold for a child: the default record, the record of an
\* earlier run, records of an earlier version (an old name; a calendar activity
\* with an old name and icon; an activity with no name), a record with an
\* activity of no known type, and a record without activities
StoredChildren ==
    {DefaultChildData,
     StoredRoutine["duarte"],
     [StoredRoutine["duarte"] EXCEPT !.activities[1].name = "Get dressed"],
     [StoredRoutine["leonor"] EXCEPT !.activities =
        Append(@, [id |-> "music", name |-> "Music", icon |-> "mdi:piano",
                   completed |-> TRUE, completed_at |-> 1, camera_required |-> FALSE,
                   nfc_required |-> TRUE, source |-> "calendar",
                   event_summary |-> <<"L-Música">>, last_modified |-> 1])],
     [DefaultChildData EXCEPT !.activities =
        <<[id |-> "teeth", completed |-> TRUE, completed_at |-> 1]>>],
     [DefaultChildData EXCEPT !.activities =
        <<[id |-> "juggling", name |-> "Juggling", icon |-> "mdi:circle",
           completed |-> TRUE, completed_at |-> 1],
          [name |-> "Breakfast", completed |-> FALSE, completed_at |-> NoTime]>>,
        !.photo_path = "photo.jpg"],
     [photo_path |-> "photo.jpg", last_reset |-> 1]}

\* the stored states: any of these records for any of duarte, leonor and a
\* child the integration does not know; the store with no key is the empty one
LoadStores ==
    UNION {[keys -> StoredChildren] : keys \in SUBSET {"duarte", "leonor", "maria"}}

\* the coordinator as constructed, over one of the stored states
InitLoad ==
    /\ InitAt(LoadStores, {EntryData(NoneStr)}, {NoOptions}, UtcOffsets)
    /\ tasks = <<>>

\* the call of _load_data, before anything else of the first refresh
LoadData ==
    /\ last.op = "init"
    /\ Commit(_load_data(M0))
    /\ last' = [op |-> "_load_data"]
    /\ UNCHANGED <<entry_data, entry_options, waiting, timers, listeners, services,
                   now, utc_offset, config_entries, hass_data,
                   _state, _available, updates, tasks>>

NextLoad == LoadData

SpecLoad == InitLoad /\ [][NextLoad]_vars

\* the keys of a child whose values are times
TimeKeys == {"last_activity_time", "last_reset", "last_calendar_sync"}

\* the value of key k is None
IsNone(k, v) == IF k \in TimeKeys THEN v = NoTime ELSE v = NoneStr

\* the record is that of a child with the five fixed activities, all
\* incomplete, and None in every other field
FreshChild(r) ==
    /\ "activities" \in DOMAIN r
    /\ [i \in DOMAIN r.activities |-> r.activities[i].id]
            = [i \in DOMAIN FIXED_ACTIVITIES |-> FIXED_ACTIVITIES[i].id]
    /\ \A i \in DOMAIN r.activities :
            /\ r.activities[i].completed = FALSE
            /\ r.activities[i].completed_at = NoTime
    /\ \A k \in DOMAIN r \ {"activities"} : IsNone(k, r[k])

\* mem is the stored activity disk of child c: equal in every field but name and
\* icon, and equal in these too unless its id is a known activity type; for a
\* child of CHILDREN the name and the icon of a known type are the configured ones
MigratedActivity(c, disk, mem) ==
    /\ DOMAIN mem \ {"name", "icon"} = DOMAIN disk \ {"name", "icon"}
    /\ \A k \in DOMAIN disk \ {"name", "icon"} : mem[k] = disk[k]
    /\ IF "id" \in DOMAIN disk /\ disk.id \in KnownActivityIds /\ c \in Children
       THEN /\ {"name", "icon"} \subseteq DOMAIN mem
            /\ mem.name = ACTIVITY_TYPES[disk.id].name
            /\ mem.icon = ACTIVITY_TYPES[disk.id].icon
       ELSE mem = disk

\* C31: _load_data with an empty store gives every known child exactly the five
\* fixed activities, all incomplete, with None in every other field, and
\* persists that state; with a non-empty store it adopts the stored state, the
\* migration changing only the name and the icon of the activities whose id is
\* a known activity type: completed, completed_at and every other field of
\* every activity, and every other key, stay as stored.
C31_LoadData ==
    [][last'.op = "_load_data" =>
        IF store = NoData
        THEN /\ DOMAIN data' = Children
             /\ \A c \in Children : FreshChild(data'[c])
             /\ store' = data'
             /\ \E i \in DOMAIN log' : log'[i].kind = "save"
        ELSE /\ DOMAIN data' = DOMAIN store
             /\ \A c \in DOMAIN store :
                    /\ DOMAIN data'[c] = DOMAIN store[c]
                    /\ \A k \in DOMAIN store[c] \ {"activities"} :
                            data'[c][k] = store[c][k]
                    /\ "activities" \in DOMAIN store[c] =>
                            /\ Len(data'[c].activities) = Len(store[c].activities)
                            /\ \A i \in DOMAIN store[c].activities :
                                    MigratedActivity(c, store[c].activities[i],
                                                        data'[c].activities[i])
      ]_vars

\* C31 witness: a store of an earlier version was loaded: duarte's first
\* activity, stored completed as "Get dressed", is completed and named "Vestir"
C31_Witness ==
    /\ last.op = "_load_data"
    /\ "duarte" \in DOMAIN store
    /\ "activities" \in DOMAIN store["duarte"]
    /\ store["duarte"].activities[1].id = "dressed"
    /\ store["duarte"].activities[1].name = "Get dressed"
    /\ store["duarte"].activities[1].completed
    /\ data["duarte"].activities[1].name = "Vestir"
    /\ data["duarte"].activities[1].completed
    /\ data["duarte"].activities[1].completed_at = 1

====
